---------------------------- MODULE Spec2Model ----------------------------
(***************************************************************************)
(* SemantiCast: ingestion-to-aggregation pipeline and 14-day forecast.     *)
(*                                                                         *)
(* Numbers.  A JavaScript number is a record [num, den]: the rational      *)
(* num/den in lowest terms with den > 0, or one of the three special       *)
(* values 0/0 (NaN), 1/0 (Infinity), -1/0 (-Infinity).  Signed zeros are   *)
(* not distinguished.  Sums, products and quotients are exact; the one     *)
(* place of the pipeline where binary64 rounding changes a discrete        *)
(* outcome, Math.sign of the weighted score sum, is evaluated on binary64  *)
(* operands (section "binary64").                                          *)
(***************************************************************************)
EXTENDS Integers, Sequences, FiniteSets, TLC

VARIABLES
  pc,               \* control position of the run
  cfg,              \* the configuration read at startup
  articles,         \* the de-duplicated articles (main)
  i,                \* start index of the current group (main's loop variable)
  tasks,            \* batchPromises: one async task per article of the current group
  results,          \* the enriched articles collected so far
  output,           \* output/aggregate-summary-<date>.json (None while not written)
  aggregate,        \* the AggregatedSummary object in hand (None before it exists)
  given,            \* the value of the snapshot when it was handed to predict
  pricePrediction,  \* the forecast returned by predict (None before)
  replayPrediction, \* the forecast of a second predict call on the same object
  queryIndex,       \* main's query loop variable
  allArticles,      \* the articles of the queries fetched so far, before the merge
  request,          \* the pending upstream request: page, attempt, and fetchAllPages' list
  seen,             \* every article the upstream returned, in order of arrival
  requested,        \* the pages asked of the upstream so far, as <<query, page>>
  failure,          \* the error main rejected with (None while there is none)
  synth,            \* the reply the synthesis call received (None while there is none)
  disk,             \* the aggregate-summary files in output/ at startup, in readdir order
  outDir,           \* what the path output/ is at startup: a directory, missing, or a file
  reported,         \* the console.error lines of the prediction-only branch
  invoked,          \* how many times each oracle operation was invoked, per article
  enriched,         \* the list handed to computeBaseMetrics when it is studied alone
  metrics,          \* what the list gave (None before)
  reordered         \* what the same articles gave in another order (None before)

None == <<>>

Some(x) == <<x>>

Val(o) == o[1]

Min(a, b) == IF a < b THEN a ELSE b

(***************************************************************************)
(* Bounds of the model.                                                    *)
(***************************************************************************)
\* Largest count in one bucket of a distribution of an enumerated snapshot.
MaxCount == 3

\* Largest number of de-duplicated articles of a run.
MaxArticles == 3

\* Articles dispatched concurrently in one group (BATCH_SIZE, 10 in index.ts).
BatchSize == 2

\* Number of queries of a run (4 in index.ts).
NumQueries == 2

\* Articles of a full page (pageSize, 100 in index.ts).
PageSize == 2

\* Pages fetched per query at most (pageLimit, 1 in index.ts).
PageLimit == 2

\* Distinct article URLs the upstream knows.
NumUrls == 2

(***************************************************************************)
(* Rational arithmetic with the IEEE special values.                       *)
(***************************************************************************)
Abs(x) == IF x < 0 THEN -x ELSE x

Sgn(x) == IF x > 0 THEN 1 ELSE IF x < 0 THEN -1 ELSE 0

RECURSIVE Gcd(_, _)
Gcd(a, b) == IF b = 0 THEN a ELSE Gcd(b, a % b)

\* n/d as a number: lowest terms, positive denominator; x/0 is +-Infinity or NaN.
Rat(n, d) ==
  IF d = 0 THEN [num |-> Sgn(n), den |-> 0]
  ELSE LET g == Gcd(Abs(n), Abs(d))
       IN  [num |-> Sgn(d) * (n \div g), den |-> Abs(d) \div g]

Num(n) == [num |-> n, den |-> 1]

NaN == [num |-> 0, den |-> 0]

IsNaN(x) == x.den = 0 /\ x.num = 0

IsFinite(x) == x.den # 0

RAdd(x, y) ==
  IF IsNaN(x) \/ IsNaN(y) THEN NaN
  ELSE IF x.den = 0 /\ y.den = 0 THEN (IF x.num = y.num THEN x ELSE NaN)
  ELSE IF x.den = 0 THEN x
  ELSE IF y.den = 0 THEN y
  ELSE Rat(x.num * y.den + y.num * x.den, x.den * y.den)

RNeg(x) == [num |-> -x.num, den |-> x.den]

RSub(x, y) == RAdd(x, RNeg(y))

RMul(x, y) ==
  IF IsNaN(x) \/ IsNaN(y) THEN NaN
  ELSE Rat(x.num * y.num, x.den * y.den)

\* x / y of JavaScript: a finite x over 0 is +-Infinity, 0/0 and Inf/Inf are NaN.
RDiv(x, y) ==
  IF IsNaN(x) \/ IsNaN(y) THEN NaN
  ELSE IF x.den = 0 /\ y.den = 0 THEN NaN
  ELSE IF y.den = 0 THEN Num(0)
  ELSE IF y.num = 0 THEN [num |-> Sgn(x.num), den |-> 0]
  ELSE IF x.den = 0 THEN [num |-> x.num * Sgn(y.num), den |-> 0]
  ELSE Rat(x.num * y.den, x.den * y.num)

\* x < y of JavaScript: false as soon as one side is NaN.
RLt(x, y) ==
  /\ ~IsNaN(x)
  /\ ~IsNaN(y)
  /\ IF x.den = 0 /\ y.den = 0 THEN x.num < y.num
     ELSE IF x.den = 0 THEN x.num < 0
     ELSE IF y.den = 0 THEN y.num > 0
     ELSE x.num * y.den < y.num * x.den

RLe(x, y) == ~IsNaN(x) /\ ~IsNaN(y) /\ ~RLt(y, x)

RGt(x, y) == RLt(y, x)

\* Math.min / Math.max: NaN as soon as one argument is NaN.
MathMin(x, y) == IF IsNaN(x) \/ IsNaN(y) THEN NaN ELSE IF RLt(y, x) THEN y ELSE x

MathMax(x, y) == IF IsNaN(x) \/ IsNaN(y) THEN NaN ELSE IF RLt(x, y) THEN y ELSE x

MathAbs(x) == [num |-> Abs(x.num), den |-> x.den]

\* Math.round: the nearest integer, ties towards +Infinity; NaN and +-Infinity unchanged.
MathRound(x) ==
  IF x.den = 0 THEN x
  ELSE LET n == 2 * x.num + x.den
           d == 2 * x.den
       IN  Num((n - (n % d)) \div d)

\* Math.round(x * 10^k) / 10^k, with scale = 10^k.
RoundTo(x, scale) == RDiv(MathRound(RMul(x, Num(scale))), Num(scale))

(***************************************************************************)
(* binary64.  A non-zero double is sgn * m * 2^e with 2^52 <= m < 2^53;    *)
(* m is held as four limbs m[1..4] in base 2^13, least significant first,  *)
(* m[4] in 2^13 .. 2^14 - 1.  Zero is sgn = 0.  Only what the evaluation of *)
(* sentimentScore * 0.4 + priceImpactScore * 0.6 needs is defined: the     *)
(* correctly rounded quotient of two integers, the correctly rounded       *)
(* product of two doubles, and the sign of a sum (round to nearest, ties   *)
(* to even).                                                               *)
(***************************************************************************)
Limb == 2 ^ 13

DZero == [sgn |-> 0, e |-> 0, m |-> <<0, 0, 0, 0>>]

DOne(s) == [sgn |-> s, e |-> -52, m |-> <<0, 0, 0, Limb>>]

\* The double literals 0.4 = 0x1999999999999A * 2^-54 and 0.6 = 0x13333333333333 * 2^-53.
D04 == [sgn |-> 1, e |-> -54, m |-> <<6554, 3276, 1638, 13107>>]

D06 == [sgn |-> 1, e |-> -53, m |-> <<4915, 6553, 3276, 9830>>]

\* m + 1, renormalised when the mantissa reaches 2^53.
DInc(d) ==
  LET c1 == d.m[1] + 1
      c2 == d.m[2] + (c1 \div Limb)
      c3 == d.m[3] + (c2 \div Limb)
      c4 == d.m[4] + (c3 \div Limb)
  IN  IF c4 = 2 * Limb
      THEN [sgn |-> d.sgn, e |-> d.e + 1, m |-> <<0, 0, 0, Limb>>]
      ELSE [sgn |-> d.sgn, e |-> d.e, m |-> <<c1 % Limb, c2 % Limb, c3 % Limb, c4>>]

RECURSIVE ShiftUp(_, _, _)
\* The least j with a * 2^j >= t, counted from j.
ShiftUp(a, t, j) == IF a >= t THEN j ELSE ShiftUp(2 * a, t, j + 1)

RECURSIVE Pow2(_)
Pow2(j) == IF j = 0 THEN 1 ELSE 2 * Pow2(j - 1)

\* The double nearest to a / t, for integers 0 < |a| < |t|.
DDiv(a, t) ==
  LET A  == Abs(a)
      T  == Abs(t)
      j  == ShiftUp(A, T, 0)
      n0 == A * Pow2(j)
      l4 == (n0 * Limb) \div T
      r4 == (n0 * Limb) % T
      l3 == (r4 * Limb) \div T
      r3 == (r4 * Limb) % T
      l2 == (r3 * Limb) \div T
      r2 == (r3 * Limb) % T
      l1 == (r2 * Limb) \div T
      r1 == (r2 * Limb) % T
      d  == [sgn |-> Sgn(a) * Sgn(t), e |-> -j - 52, m |-> <<l1, l2, l3, l4>>]
  IN  IF 2 * r1 > T \/ (2 * r1 = T /\ l1 % 2 = 1) THEN DInc(d) ELSE d

\* The double nearest to x * y.
DMul(x, y) ==
  IF x.sgn = 0 \/ y.sgn = 0 THEN DZero
  ELSE
  LET a == x.m
      b == y.m
      c2 == a[1] * b[1]
      c3 == a[1] * b[2] + a[2] * b[1]
      c4 == a[1] * b[3] + a[2] * b[2] + a[3] * b[1]
      c5 == a[1] * b[4] + a[2] * b[3] + a[3] * b[2] + a[4] * b[1]
      c6 == a[2] * b[4] + a[3] * b[3] + a[4] * b[2]
      c7 == a[3] * b[4] + a[4] * b[3]
      c8 == a[4] * b[4]
      s2 == c2
      s3 == c3 + (s2 \div Limb)
      s4 == c4 + (s3 \div Limb)
      s5 == c5 + (s4 \div Limb)
      s6 == c6 + (s5 \div Limb)
      s7 == c7 + (s6 \div Limb)
      s8 == c8 + (s7 \div Limb)
      p1 == s2 % Limb
      p2 == s3 % Limb
      p3 == s4 % Limb
      p4 == s5 % Limb
      p5 == s6 % Limb
      p6 == s7 % Limb
      p7 == s8 % Limb
      p8 == s8 \div Limb
      low == p1 + p2 + p3
      sg == x.sgn * y.sgn
      half == Limb \div 2
  IN  IF p8 < 2 * Limb
      THEN \* the product is below 2^105: the low 52 bits are dropped
           LET d  == [sgn |-> sg, e |-> x.e + y.e + 52, m |-> <<p5, p6, p7, p8>>]
               up == \/ p4 > half
                     \/ (p4 = half /\ low > 0)
                     \/ (p4 = half /\ low = 0 /\ p5 % 2 = 1)
           IN  IF up THEN DInc(d) ELSE d
      ELSE \* the low 53 bits are dropped
           LET l1 == (p5 \div 2) + (p6 % 2) * half
               l2 == (p6 \div 2) + (p7 % 2) * half
               l3 == (p7 \div 2) + (p8 % 2) * half
               l4 == p8 \div 2
               d  == [sgn |-> sg, e |-> x.e + y.e + 53, m |-> <<l1, l2, l3, l4>>]
               up == p5 % 2 = 1 /\ (p4 + low > 0 \/ l1 % 2 = 1)
           IN  IF up THEN DInc(d) ELSE d

\* |x| > |y| for non-zero doubles.
DMagGt(x, y) ==
  \/ x.e > y.e
  \/ /\ x.e = y.e
     /\ \E k \in 1..4 : x.m[k] > y.m[k] /\ \A h \in (k + 1)..4 : x.m[h] = y.m[h]

\* Math.sign(x + y): the sum of two doubles is zero only when they cancel exactly.
DSumSign(x, y) ==
  IF x.sgn = 0 THEN y.sgn
  ELSE IF y.sgn = 0 THEN x.sgn
  ELSE IF x.sgn = y.sgn THEN x.sgn
  ELSE IF DMagGt(x, y) THEN x.sgn
  ELSE IF DMagGt(y, x) THEN y.sgn
  ELSE 0

\* Math.max(-1, Math.min(1, a / t)) as a double, for integers a and t # 0.
DScore(a, t) ==
  IF a = 0 THEN DZero
  ELSE IF Abs(a) >= Abs(t) THEN DOne(Sgn(a) * Sgn(t))
  ELSE DDiv(a, t)

RECURSIVE ShiftDown(_, _)
\* The least s, counted from s, with top \div 2^s < 2^14.
ShiftDown(top, s) == IF top \div Pow2(s) < 2 * Limb THEN s ELSE ShiftDown(top, s + 1)

\* x + y for doubles x, y >= 0 whose exponents differ by at most 12: the exact sum is
\* built on five limbs and rounded to 53 bits (round to nearest, ties to even).
DAdd(x, y) ==
  IF x.sgn = 0 THEN y
  ELSE IF y.sgn = 0 THEN x
  ELSE
  LET hi == IF x.e >= y.e THEN x ELSE y
      lo == IF x.e >= y.e THEN y ELSE x
      f  == Pow2(hi.e - lo.e)
      t1 == hi.m[1] * f + lo.m[1]
      t2 == hi.m[2] * f + lo.m[2] + (t1 \div Limb)
      t3 == hi.m[3] * f + lo.m[3] + (t2 \div Limb)
      t4 == hi.m[4] * f + lo.m[4] + (t3 \div Limb)
      n1 == t1 % Limb
      n2 == t2 % Limb
      n3 == t3 % Limb
      n4 == t4 % Limb
      n5 == t4 \div Limb
      sh == ShiftDown(n5 * Limb + n4, 0)
      g  == Pow2(sh)
      up == Limb \div g
      q1 == (n1 \div g) + (n2 % g) * up
      q2 == (n2 \div g) + (n3 % g) * up
      q3 == (n3 \div g) + (n4 % g) * up
      q4 == (n5 * Limb + n4) \div g
      r  == n1 % g
      d  == [sgn |-> 1, e |-> lo.e + sh, m |-> <<q1, q2, q3, q4>>]
  IN  IF 2 * r > g \/ (2 * r = g /\ q1 % 2 = 1) THEN DInc(d) ELSE d

\* floor(m * 2^j / n) on five limbs, with the remainder, for a mantissa m and 1 <= n.
ScaledQuot(m, j, n) ==
  LET f  == Pow2(j)
      t1 == m[1] * f
      t2 == m[2] * f + (t1 \div Limb)
      t3 == m[3] * f + (t2 \div Limb)
      t4 == m[4] * f + (t3 \div Limb)
      a5 == t4 \div Limb
      a4 == (a5 % n) * Limb + (t4 % Limb)
      a3 == (a4 % n) * Limb + (t3 % Limb)
      a2 == (a3 % n) * Limb + (t2 % Limb)
      a1 == (a2 % n) * Limb + (t1 % Limb)
  IN  [q |-> <<a1 \div n, a2 \div n, a3 \div n, a4 \div n, a5 \div n>>, r |-> a1 % n]

RECURSIVE QuotShift(_, _, _)
\* The least j, counted from j, with m * 2^j / n >= 2^52.
QuotShift(m, n, j) ==
  LET q == ScaledQuot(m, j, n).q
  IN  IF q[5] * Limb + q[4] >= Limb THEN j ELSE QuotShift(m, n, j + 1)

\* x / n for a double x >= 0 and an integer 1 <= n < 2^12, correctly rounded.
DDivN(x, n) ==
  IF x.sgn = 0 THEN DZero
  ELSE
  LET j  == QuotShift(x.m, n, 0)
      qr == ScaledQuot(x.m, j, n)
      d  == [sgn |-> 1, e |-> x.e - j,
             m |-> <<qr.q[1], qr.q[2], qr.q[3], qr.q[5] * Limb + qr.q[4]>>]
  IN  IF 2 * qr.r > n \/ (2 * qr.r = n /\ qr.q[1] % 2 = 1) THEN DInc(d) ELSE d

\* The double a decimal literal in 0..1 denotes.
DOfRat(x) ==
  IF x.num = 0 THEN DZero
  ELSE IF x.num = x.den THEN DOne(1)
  ELSE DDiv(x.num, x.den)

(***************************************************************************)
(* Strings.  A string is a sequence of pieces; a piece is a run of         *)
(* characters with its length, so that slice(0, n) can cut a piece short.  *)
(***************************************************************************)
Tok(w, n) == [w |-> w, n |-> n]

RECURSIVE StrLen(_)
StrLen(s) == IF s = <<>> THEN 0 ELSE Head(s).n + StrLen(Tail(s))

RECURSIVE StrSlice(_, _)
\* s.slice(0, max)
StrSlice(s, max) ==
  IF s = <<>> \/ max <= 0 THEN <<>>
  ELSE IF Head(s).n <= max THEN <<Head(s)>> \o StrSlice(Tail(s), max - Head(s).n)
  ELSE <<Tok(Head(s).w, max)>>

DISCLAIMER == Tok("(informational, not financial advice)", 37)

ActionTok(action) == Tok(action, IF action = "BUY:" THEN 4 ELSE 5)

HeuristicSuggestion(action) ==
  <<ActionTok(action), Tok(" heuristic summary based on current distributions ", 50),
    DISCLAIMER>>

(***************************************************************************)
(* RareEarthMetalPredictor.                                                *)
(***************************************************************************)
BASELINE_14DAY_VOLATILITY == Rat(32, 10)

BASKET_REFERENCE_PRICE == 95

Clamp11(x) == MathMax(Num(-1), MathMin(Num(1), x))

calculateSentimentScore(a) ==
  LET d     == a.sentimentDistribution
      total == d.bullish + d.bearish + d.neutral
  IN  IF total = 0 THEN Num(0) ELSE Clamp11(Rat(d.bullish - d.bearish, total))

calculatePriceImpactScore(a) ==
  LET d     == a.priceImpactDistribution
      total == d.up + d.down + d.uncertain
  IN  IF total = 0 THEN Num(0) ELSE Clamp11(Rat(d.up - d.down, total))

\* The same two scores as the doubles the code holds.
sentimentScoreD(a) ==
  LET d     == a.sentimentDistribution
      total == d.bullish + d.bearish + d.neutral
  IN  IF total = 0 THEN DZero ELSE DScore(d.bullish - d.bearish, total)

priceImpactScoreD(a) ==
  LET d     == a.priceImpactDistribution
      total == d.up + d.down + d.uncertain
  IN  IF total = 0 THEN DZero ELSE DScore(d.up - d.down, total)

\* sentimentScore * 0.4 + priceImpactScore * 0.6
CombinedScore(sentimentScore, priceImpactScore) ==
  RAdd(RMul(sentimentScore, Rat(4, 10)), RMul(priceImpactScore, Rat(6, 10)))

\* Math.sign(combinedScore), of the double the code computes.
CombinedSign(a) ==
  DSumSign(DMul(sentimentScoreD(a), D04), DMul(priceImpactScoreD(a), D06))

calculatePredictionConfidence(a) ==
  LET avgConfidence ==
        RDiv(RAdd(RAdd(a.avgRelevanceConfidence, a.avgSentimentConfidence),
                  a.avgPriceImpactConfidence), Num(3))
      articleFactor == MathMin(Num(1), RDiv(Num(a.totalRelevant), Num(30)))
      uncertainPenalty ==
        RSub(Num(1), RDiv(Num(a.priceImpactDistribution.uncertain), Num(a.totalRelevant)))
  IN  RAdd(RAdd(RMul(avgConfidence, Rat(5, 10)), RMul(articleFactor, Rat(3, 10))),
           RMul(uncertainPenalty, Rat(2, 10)))

\* splice(0, 3) in place of slice(0, 3): the first three are taken out of the array.
SpliceDrivers(drivers) ==
  [taken |-> SubSeq(drivers, 1, Min(3, Len(drivers))),
   left |-> SubSeq(drivers, Min(3, Len(drivers)) + 1, Len(drivers))]

\* aggregate.dominantDrivers.slice(0, 3): the first three, the array left as it was.
SliceDrivers(drivers) ==
  [taken |-> SubSeq(drivers, 1, Min(3, Len(drivers))), left |-> drivers]

generateReasoning(a, sentimentScore, priceImpactScore, combinedScore) ==
  LET sl == SliceDrivers(a.dominantDrivers)
  IN  [text |->
         [strength      |-> IF RGt(MathAbs(combinedScore), Rat(5, 10)) THEN "strong"
                            ELSE IF RGt(MathAbs(combinedScore), Rat(2, 10)) THEN "moderate"
                            ELSE "weak",
          direction     |-> IF RGt(combinedScore, Rat(1, 10)) THEN "upward"
                            ELSE IF RLt(combinedScore, Rat(-1, 10)) THEN "downward"
                            ELSE "stable",
          sentimentDesc |-> IF RGt(sentimentScore, Rat(1, 10)) THEN "bullish sentiment"
                            ELSE IF RLt(sentimentScore, Rat(-1, 10)) THEN "bearish sentiment"
                            ELSE "neutral sentiment",
          impactDesc    |-> IF RGt(priceImpactScore, Rat(1, 10)) THEN "supply risks"
                            ELSE IF RLt(priceImpactScore, Rat(-1, 10)) THEN "oversupply signals"
                            ELSE "balanced supply-demand",
          totalRelevant |-> a.totalRelevant,
          magnetCount   |-> a.magnetCount,
          batteryCount  |-> a.batteryCount,
          drivers       |-> sl.taken],
       drivers |-> sl.left]

\* predict(aggregate): the forecast returned, and the argument object after the call.
predict(a) ==
  LET sentimentScore   == calculateSentimentScore(a)
      priceImpactScore == calculatePriceImpactScore(a)
      combinedScore    == CombinedScore(sentimentScore, priceImpactScore)
      newsImpactMultiplier == RAdd(Num(1), RMul(combinedScore, Rat(8, 10)))
      predictedChangePercent ==
        RMul(RMul(BASELINE_14DAY_VOLATILITY, newsImpactMultiplier), Num(CombinedSign(a)))
      predictedChangeUSD ==
        RDiv(RMul(Num(BASKET_REFERENCE_PRICE), predictedChangePercent), Num(100))
      priceTarget == RAdd(Num(BASKET_REFERENCE_PRICE), predictedChangeUSD)
      confidence  == calculatePredictionConfidence(a)
      reasoning   == generateReasoning(a, sentimentScore, priceImpactScore, combinedScore)
  IN  [forecast |->
         [predictedChangePercent |-> RoundTo(predictedChangePercent, 100),
          predictedChangeUSD     |-> RoundTo(predictedChangeUSD, 100),
          confidence             |-> RoundTo(confidence, 1000),
          baselineVolatility     |-> BASELINE_14DAY_VOLATILITY,
          newsImpactMultiplier   |-> RoundTo(newsImpactMultiplier, 100),
          priceTarget            |-> RoundTo(priceTarget, 100),
          currentBasketPrice     |-> Num(BASKET_REFERENCE_PRICE),
          reasoning              |-> reasoning.text],
       aggregate |-> [a EXCEPT !.dominantDrivers = reasoning.drivers]]

(***************************************************************************)
(* OpenAIService: what the adapter makes of one oracle reply.              *)
(*                                                                         *)
(* A reply is a record with k = "api_error" (the completion call rejects), *)
(* "unparsable" (the text is no JSON), "null" (the text is the JSON value  *)
(* null, so the first property read throws a TypeError) or "json" (an      *)
(* object, with the fields the adapter reads).  A raw numeric field is     *)
(* [k |-> "missing"], [k |-> "num", v |-> number] or [k |-> "text"] (a      *)
(* value Number() turns into NaN).                                         *)
(***************************************************************************)
Missing == [k |-> "missing", v |-> Num(0)]

RawNum(x) == [k |-> "num", v |-> x]

RawText == [k |-> "text", v |-> Num(0)]

\* Number(raw ?? dflt)
NumberOr(raw, dflt) ==
  IF raw.k = "missing" THEN dflt ELSE IF raw.k = "num" THEN raw.v ELSE NaN

\* Number(raw) || 0, for an integer-valued raw field.
NumberOrZero(raw) == IF raw.k = "num" THEN raw.v ELSE 0

clamp01(n) == MathMax(Num(0), MathMin(Num(1), n))

Threw == [threw |-> TRUE, value |-> None]

Returned(x) == [threw |-> FALSE, value |-> Some(x)]

Categories == {"magnet", "battery", "mixed", "other"}

NotRelevant(confidence, rationale) ==
  [relevant |-> FALSE, confidence |-> confidence, rationale |-> rationale,
   automotiveRelevant |-> FALSE, category |-> "other"]

\* The relevance a batch task starts from (the value used when the oracle is disabled).
DefaultRelevance == NotRelevant(Num(0), "ai_disabled")

assessRareEarthRelevance(enabled, reply) ==
  IF ~enabled THEN Threw
  ELSE IF reply.k = "api_error" THEN Returned(NotRelevant(Rat(1, 10), "openai_error"))
  ELSE IF reply.k = "unparsable" THEN Returned(NotRelevant(Rat(2, 10), "parse_error"))
  ELSE IF reply.k = "null" THEN Threw
  ELSE LET relevant == reply.relevant
           automotiveRelevant == relevant /\ reply.automotiveRelevant
       IN  Returned([relevant |-> relevant,
                     confidence |-> clamp01(NumberOr(reply.confidence, Rat(5, 10))),
                     rationale |-> "model",
                     automotiveRelevant |-> automotiveRelevant,
                     category |-> IF automotiveRelevant /\ reply.category \in Categories
                                  THEN reply.category ELSE "other"])

classifyNews(enabled, reply) ==
  IF ~enabled THEN Threw
  ELSE IF reply.k # "json" THEN Threw
  ELSE Returned([sentiment |-> IF reply.sentiment \in {"bullish", "bearish", "neutral"}
                               THEN reply.sentiment ELSE "neutral",
                 impact |-> IF reply.impact \in {"up", "down", "flat"}
                            THEN reply.impact ELSE "flat",
                 confidence |-> clamp01(NumberOr(reply.confidence, Rat(5, 10)))])

Uncertain(confidence, reasoning) ==
  [direction |-> "uncertain", confidence |-> confidence, drivers |-> <<>>,
   reasoning |-> reasoning]

assessRareEarthPriceImpact(enabled, reply) ==
  IF ~enabled THEN Threw
  ELSE IF reply.k = "api_error" THEN Returned(Uncertain(Rat(1, 10), "openai_error"))
  ELSE IF reply.k = "unparsable" THEN Returned(Uncertain(Rat(2, 10), "parse_error"))
  ELSE IF reply.k = "null" THEN Threw
  ELSE Returned([direction |-> IF reply.direction \in {"up", "down", "uncertain"}
                               THEN reply.direction ELSE "uncertain",
                 confidence |-> clamp01(NumberOr(reply.confidence, Rat(5, 10))),
                 drivers |-> SubSeq(reply.drivers, 1, Min(5, Len(reply.drivers))),
                 reasoning |-> "model"])

(***************************************************************************)
(* The analyzers in front of the adapter.                                  *)
(***************************************************************************)
\* toLowerCase of the words that occur in the modelled headlines.
Lower(w) ==
  CASE w = "Surge" -> "surge"
    [] w = "Plunge" -> "plunge"
    [] w = "Lithium" -> "lithium"
    [] w = "Cobalt" -> "cobalt"
    [] w = "Nickel" -> "nickel"
    [] OTHER -> w

BullWords == {"surge", "rally", "record", "higher", "growth", "upgrade"}

BearWords == {"plunge", "drop", "miss", "lower", "fraud", "downgrade"}

\* A headline is a sequence of words; includes(w) is decided word by word.
naiveBaseline(text) ==
  LET t    == {Lower(text[k]) : k \in 1..Len(text)}
      bull == t \cap BullWords # {}
      bear == t \cap BearWords # {}
  IN  IF bull /\ ~bear
      THEN [sentiment |-> "bullish", impact |-> "up", confidence |-> Rat(7, 10)]
      ELSE IF bear /\ ~bull
      THEN [sentiment |-> "bearish", impact |-> "down", confidence |-> Rat(7, 10)]
      ELSE [sentiment |-> "neutral", impact |-> "flat", confidence |-> Rat(4, 10)]

\* IronNewsAnalyzer.analyze
analyze(enabled, reply, headline) ==
  LET r == classifyNews(enabled, reply)
  IN  IF enabled /\ ~r.threw THEN Val(r.value) ELSE naiveBaseline(headline)

\* A fallback that answers a thrown call with a mid confidence.
priceImpactMidConfidence(enabled, reply) ==
  LET r == assessRareEarthPriceImpact(enabled, reply)
  IN  IF enabled /\ ~r.threw THEN Val(r.value) ELSE Uncertain(Rat(5, 10), "ai_disabled")

\* RareEarthMetalAnalyzer.priceImpact
priceImpact(enabled, reply) ==
  LET r == assessRareEarthPriceImpact(enabled, reply)
  IN  IF enabled /\ ~r.threw THEN Val(r.value) ELSE Uncertain(Rat(2, 10), "ai_disabled")

(***************************************************************************)
(* OpenAIService: the aggregate.                                           *)
(***************************************************************************)
RECURSIVE SumSeq(_)
\* q.reduce((s, x) => s + x, 0)
SumSeq(q) ==
  IF q = <<>> THEN Num(0)
  ELSE RAdd(SumSeq(SubSeq(q, 1, Len(q) - 1)), q[Len(q)])

SumOf(items, f(_)) == SumSeq([k \in 1..Len(items) |-> f(items[k])])

CountOf(items, P(_)) == Cardinality({k \in 1..Len(items) : P(items[k])})

RelConfidence(item) == item.relevance.confidence

ClsConfidence(item) == item.classification.confidence

PiConfidence(item) == item.priceImpact.confidence

computeBaseMetrics(items, totalFetched) ==
  LET totalRelevant == Len(items)
      Cat(c) == CountOf(items, LAMBDA item : item.relevance.category = c)
      Dir(d) == CountOf(items, LAMBDA item : item.priceImpact.direction = d)
      Sen(x) == CountOf(items, LAMBDA item : item.classification.sentiment = x)
      Avg(f(_)) == IF totalRelevant # 0
                   THEN RDiv(SumOf(items, f), Num(totalRelevant)) ELSE Num(0)
  IN  [totalArticles            |-> totalFetched,
       totalRelevant            |-> totalRelevant,
       magnetCount              |-> Cat("magnet"),
       batteryCount             |-> Cat("battery"),
       mixedCount               |-> Cat("mixed"),
       otherCount               |-> Cat("other"),
       avgRelevanceConfidence   |-> Avg(RelConfidence),
       avgSentimentConfidence   |-> Avg(ClsConfidence),
       avgPriceImpactConfidence |-> Avg(PiConfidence),
       priceImpactDistribution  |->
         [up |-> Dir("up"), down |-> Dir("down"), uncertain |-> Dir("uncertain")],
       sentimentDistribution    |->
         [bullish |-> Sen("bullish"), bearish |-> Sen("bearish"), neutral |-> Sen("neutral")],
       dominantDrivers          |-> <<>>,
       narrative                |-> <<>>,
       suggestion               |-> <<>>,
       pricePrediction          |-> None]

\* Without the margin over the uncertain articles.
inferFallbackSuggestionNoMargin(base) ==
  LET pid == base.priceImpactDistribution
      sd  == base.sentimentDistribution
      action ==
        IF pid.up > pid.down /\ sd.bullish > sd.bearish THEN "BUY:"
        ELSE IF pid.down > pid.up /\ sd.bearish > sd.bullish THEN "SELL:"
        ELSE "HOLD:"
  IN  HeuristicSuggestion(action)

inferFallbackSuggestion(base) ==
  LET pid == base.priceImpactDistribution
      sd  == base.sentimentDistribution
      action ==
        IF pid.up > pid.down /\ sd.bullish > sd.bearish /\ pid.up >= (pid.down + pid.uncertain)
        THEN "BUY:"
        ELSE IF pid.down > pid.up /\ sd.bearish > sd.bullish
                /\ pid.down >= (pid.up + pid.uncertain)
        THEN "SELL:"
        ELSE "HOLD:"
  IN  HeuristicSuggestion(action)

NARRATIVE_UNAVAILABLE ==
  <<Tok("Automotive rare earth activity observed; AI summary unavailable.", 64)>>

NARRATIVE_NONE == <<Tok("No relevant automotive rare earth articles found.", 49)>>

buildFallbackAggregateHold(items, totalFetched) ==
  LET base == computeBaseMetrics(items, totalFetched)
  IN  [base EXCEPT !.dominantDrivers = <<>>,
                   !.narrative = IF Len(items) # 0 THEN NARRATIVE_UNAVAILABLE
                                 ELSE NARRATIVE_NONE,
                   !.suggestion = HeuristicSuggestion("HOLD:")]

buildFallbackAggregate(items, totalFetched) ==
  LET base == computeBaseMetrics(items, totalFetched)
  IN  [base EXCEPT !.dominantDrivers = <<>>,
                   !.narrative = IF Len(items) # 0 THEN NARRATIVE_UNAVAILABLE
                                 ELSE NARRATIVE_NONE,
                   !.suggestion = inferFallbackSuggestion(base)]

\* The same override also taking the number of relevant articles from the oracle's
\* price-impact buckets.
OverrideDistributionsAndTotal(aggBase, reply) ==
  [aggBase EXCEPT
     !.totalRelevant = NumberOrZero(reply.pid.up) + NumberOrZero(reply.pid.down)
                       + NumberOrZero(reply.pid.uncertain),
     !.priceImpactDistribution =
        [up        |-> NumberOrZero(reply.pid.up),
         down      |-> NumberOrZero(reply.pid.down),
         uncertain |-> NumberOrZero(reply.pid.uncertain)],
     !.sentimentDistribution =
        [bullish |-> NumberOrZero(reply.sd.bullish),
         bearish |-> NumberOrZero(reply.sd.bearish),
         neutral |-> NumberOrZero(reply.sd.neutral)]]

\* The distributions of the returned snapshot: the oracle's own numbers.
OverrideDistributions(aggBase, reply) ==
  [aggBase EXCEPT
     !.priceImpactDistribution =
        [up        |-> NumberOrZero(reply.pid.up),
         down      |-> NumberOrZero(reply.pid.down),
         uncertain |-> NumberOrZero(reply.pid.uncertain)],
     !.sentimentDistribution =
        [bullish |-> NumberOrZero(reply.sd.bullish),
         bearish |-> NumberOrZero(reply.sd.bearish),
         neutral |-> NumberOrZero(reply.sd.neutral)]]

\* The suggestion of the returned snapshot.
OverrideSuggestion(aggBase, reply) ==
  IF reply.suggestion.isString THEN StrSlice(reply.suggestion.s, 140)
  ELSE inferFallbackSuggestion(aggBase)

summarizeAggregate(enabled, items, totalFetched, reply) ==
  IF ~enabled THEN Returned(buildFallbackAggregate(items, totalFetched))
  ELSE IF Len(items) = 0 THEN Returned(buildFallbackAggregate(items, totalFetched))
  ELSE IF reply.k \in {"api_error", "unparsable"}
  THEN Returned(buildFallbackAggregate(items, totalFetched))
  ELSE IF reply.k = "null" THEN Threw
  ELSE LET aggBase == computeBaseMetrics(items, totalFetched)
       IN  Returned(
             [OverrideDistributions(aggBase, reply) EXCEPT
                !.dominantDrivers = [k \in 1..Min(8, Len(reply.drivers)) |->
                                        Lower(reply.drivers[k])],
                !.narrative = IF reply.narrative.isString
                              THEN StrSlice(reply.narrative.s, 420)
                              ELSE <<Tok("No narrative", 12)>>,
                !.suggestion = OverrideSuggestion(aggBase, reply)])

\* The snapshot main builds when summarizeAggregate rejects.
AggregateErrorSnapshot(totalFetched, relevantCount) ==
  [totalArticles            |-> totalFetched,
   totalRelevant            |-> relevantCount,
   magnetCount              |-> 0,
   batteryCount             |-> 0,
   mixedCount               |-> 0,
   otherCount               |-> 0,
   avgRelevanceConfidence   |-> Num(0),
   avgSentimentConfidence   |-> Num(0),
   avgPriceImpactConfidence |-> Num(0),
   priceImpactDistribution  |-> [up |-> 0, down |-> 0, uncertain |-> 0],
   sentimentDistribution    |-> [bullish |-> 0, bearish |-> 0, neutral |-> 0],
   dominantDrivers          |-> <<>>,
   narrative                |-> <<Tok("aggregate_error", 15)>>,
   suggestion               |-> <<ActionTok("HOLD:"), Tok(" aggregate error fallback ", 26),
                                  DISCLAIMER>>,
   pricePrediction          |-> None]

(***************************************************************************)
(* predict as a pure function: the snapshots it is applied to.             *)
(***************************************************************************)
Counts == 0..MaxCount

\* The average confidences (relevance, sentiment, price impact) and the dominant
\* drivers of the enumerated snapshots.
Profiles ==
  { [conf |-> <<Rat(8, 10), Rat(7, 10), Rat(75, 100)>>, drivers |-> <<>>],
    [conf |-> <<Num(1), Num(0), Num(1)>>,
     drivers |-> <<"export controls", "supply shortage", "ev demand", "stockpiling">>] }

Snapshot(pid, sd, conf, drivers) ==
  [totalArticles            |-> pid.up + pid.down + pid.uncertain + 1,
   totalRelevant            |-> pid.up + pid.down + pid.uncertain,
   magnetCount              |-> pid.up + pid.down + pid.uncertain,
   batteryCount             |-> 0,
   mixedCount               |-> 0,
   otherCount               |-> 0,
   avgRelevanceConfidence   |-> conf[1],
   avgSentimentConfidence   |-> conf[2],
   avgPriceImpactConfidence |-> conf[3],
   priceImpactDistribution  |-> pid,
   sentimentDistribution    |-> sd,
   dominantDrivers          |-> drivers,
   narrative                |-> <<Tok("Rare earth supply tightens.", 27)>>,
   suggestion               |-> HeuristicSuggestion("HOLD:"),
   pricePrediction          |-> None]

\* The worked example: up=6 down=1 uncertain=1, bullish=5 bearish=1 neutral=2, 0.8/0.7/0.75.
ExampleSnapshot ==
  Snapshot([up |-> 6, down |-> 1, uncertain |-> 1],
           [bullish |-> 5, bearish |-> 1, neutral |-> 2],
           <<Rat(8, 10), Rat(7, 10), Rat(75, 100)>>, <<>>)

PredictInputs ==
  { Snapshot(pid, sd, p.conf, p.drivers) :
      pid \in [up : Counts, down : Counts, uncertain : Counts],
      sd \in [bullish : Counts, bearish : Counts, neutral : Counts],
      p \in Profiles }
  \cup {ExampleSnapshot}

vars ==
  <<pc, cfg, articles, i, tasks, results, output, aggregate, given, pricePrediction,
    replayPrediction, queryIndex, allArticles, request, seen, requested, failure, synth,
    disk, outDir, reported, invoked, enriched, metrics, reordered>>

metricVars == <<enriched, metrics, reordered>>

\* The variables of the base-metrics study while it is not run.
metricIdle ==
  /\ enriched = <<>>
  /\ metrics = None
  /\ reordered = None

ioVars == <<synth, disk, outDir, reported, invoked>>

\* No oracle operation invoked yet: a count per article position for the three
\* per-article operations and one for the synthesis.
NoCalls ==
  [rel   |-> [j \in 1..MaxArticles |-> 0],
   cls   |-> [j \in 1..MaxArticles |-> 0],
   pi    |-> [j \in 1..MaxArticles |-> 0],
   synth |-> 0]

\* One more invocation of each operation of ops for the articles at the positions js.
Issue(log, ops, js) ==
  [op \in DOMAIN log |->
     IF op \in ops /\ op # "synth"
     THEN [j \in DOMAIN log[op] |-> IF j \in js THEN log[op][j] + 1 ELSE log[op][j]]
     ELSE IF op \in ops THEN log[op] + 1
     ELSE log[op]]

fetchVars == <<queryIndex, allArticles, request, seen, requested, failure>>

\* The variables of the query loop before it starts.
fetchIdle ==
  /\ queryIndex = 0
  /\ allArticles = <<>>
  /\ request = None
  /\ seen = <<>>
  /\ requested = <<>>
  /\ failure = None

\* The variables of main, idle while predict is studied alone.
mainIdle ==
  /\ cfg = [newsApiKey |-> TRUE, aiEnabled |-> TRUE, skipFetch |-> FALSE]
  /\ articles = <<>>
  /\ i = 0
  /\ tasks = <<>>
  /\ results = <<>>
  /\ output = None
  /\ synth = None
  /\ disk = <<>>
  /\ outDir = "directory"
  /\ reported = <<>>
  /\ invoked = NoCalls
  /\ fetchIdle

mainVars == <<cfg, articles, i, tasks, results, output, ioVars, fetchVars>>

predictVars == <<aggregate, given, pricePrediction, replayPrediction>>

InitPredict ==
  /\ pc = "call1"
  /\ aggregate \in {Some(a) : a \in PredictInputs}
  /\ given = aggregate
  /\ pricePrediction = None
  /\ replayPrediction = None
  /\ mainIdle
  /\ metricIdle

\* const pricePrediction = predictor.predict(aggregate)
PredictFirst ==
  /\ pc = "call1"
  /\ LET r == predict(Val(aggregate))
     IN  /\ pricePrediction' = Some(r.forecast)
         /\ aggregate' = Some(r.aggregate)
  /\ pc' = "call2"
  /\ UNCHANGED <<given, replayPrediction, mainVars, metricVars>>

\* a second call with the same object
PredictSecond ==
  /\ pc = "call2"
  /\ LET r == predict(Val(aggregate))
     IN  /\ replayPrediction' = Some(r.forecast)
         /\ aggregate' = Some(r.aggregate)
  /\ pc' = "returned"
  /\ UNCHANGED <<given, pricePrediction, mainVars, metricVars>>

NextPredict == PredictFirst \/ PredictSecond

SpecPredict == InitPredict /\ [][NextPredict]_vars

(***************************************************************************)
(* computeBaseMetrics and the fallback aggregate as pure functions: the    *)
(* lists they are applied to, and the averages as the doubles the code     *)
(* computes (a left-to-right sum from 0, divided by the length).           *)
(***************************************************************************)
\* Longest list of enriched articles.
MaxItems == 3

Sentiments == {"bullish", "bearish", "neutral"}

Directions == {"up", "down", "uncertain"}

\* One enriched article with the given sentiment and price direction.  The confidences
\* are values the adapters return: 0.1 is the price-impact default of a failed call and
\* 0.7 / 0.4 are the naive baseline's.
Item(sentiment, direction) ==
  [relevance |->
     [category   |-> IF direction = "up" THEN "magnet"
                     ELSE IF direction = "down" THEN "battery"
                     ELSE IF sentiment = "neutral" THEN "other" ELSE "mixed",
      confidence |-> IF sentiment = "bullish" THEN Rat(9, 10)
                     ELSE IF sentiment = "bearish" THEN Rat(5, 10) ELSE Rat(7, 10)],
   classification |->
     [sentiment  |-> sentiment,
      confidence |-> IF sentiment = "neutral" THEN Rat(4, 10) ELSE Rat(7, 10)],
   priceImpact |->
     [direction  |-> direction,
      confidence |-> IF direction = "up" THEN Rat(3, 10)
                     ELSE IF direction = "down" THEN Rat(2, 10) ELSE Rat(1, 10)]]

ItemLists ==
  UNION { [1..n -> {Item(x, d) : x \in Sentiments, d \in Directions}] : n \in 0..MaxItems }

RECURSIVE SumD(_)
\* q.reduce((s, x) => s + x, 0) on doubles
SumD(q) ==
  IF q = <<>> THEN DZero
  ELSE DAdd(SumD(SubSeq(q, 1, Len(q) - 1)), DOfRat(q[Len(q)]))

\* totalRelevant ? sum / totalRelevant : 0
averageD(q) == IF Len(q) # 0 THEN DDivN(SumD(q), Len(q)) ELSE DZero

\* buildFallbackAggregate(list, list.length), its three averages as doubles.
fallbackAggregateD(list) ==
  [buildFallbackAggregate(list, Len(list)) EXCEPT
     !.avgRelevanceConfidence   = averageD([k \in 1..Len(list) |-> RelConfidence(list[k])]),
     !.avgSentimentConfidence   = averageD([k \in 1..Len(list) |-> ClsConfidence(list[k])]),
     !.avgPriceImpactConfidence = averageD([k \in 1..Len(list) |-> PiConfidence(list[k])])]

InitMetrics ==
  /\ pc = "metrics"
  /\ enriched \in ItemLists
  /\ metrics = None
  /\ reordered = None
  /\ aggregate = None
  /\ given = None
  /\ pricePrediction = None
  /\ replayPrediction = None
  /\ mainIdle

\* summarizeAggregate(items, items.length) without a client
ComputeMetrics ==
  /\ pc = "metrics"
  /\ metrics' = Some(fallbackAggregateD(enriched))
  /\ pc' = "reorder"
  /\ UNCHANGED <<enriched, reordered, predictVars, mainVars>>

\* the same articles handed over in another order
Reorder ==
  /\ pc = "reorder"
  /\ \E perm \in Permutations(1..Len(enriched)) :
       /\ enriched' = [k \in 1..Len(enriched) |-> enriched[perm[k]]]
       /\ reordered' = Some(fallbackAggregateD(enriched'))
  /\ pc' = "compared"
  /\ UNCHANGED <<metrics, predictVars, mainVars>>

NextMetrics == ComputeMetrics \/ Reorder

SpecMetrics == InitMetrics /\ [][NextMetrics]_vars

(***************************************************************************)
(* The three judgments as pure functions of the oracle's reply: the        *)
(* adapter applied to replies whose confidence field is missing, below 0,  *)
(* above 1 or not a number, and the averages over the judgments.           *)
(***************************************************************************)
\* Longest list of judged articles.
MaxJudged == 2

\* What the oracle may put in a confidence field.
RawConfidences == {Missing, RawNum(Rat(-1, 2)), RawNum(Rat(3, 2)), RawText}

JudgeRelevanceReplies ==
  {[k |-> "api_error"], [k |-> "unparsable"]}
    \cup {[k |-> "json", relevant |-> TRUE, automotiveRelevant |-> TRUE,
           category |-> "magnet", confidence |-> c] : c \in RawConfidences}

JudgeClassifyReplies ==
  {[k |-> "json", sentiment |-> "bullish", impact |-> "up", confidence |-> c] :
     c \in RawConfidences}

JudgePriceImpactReplies ==
  {[k |-> "api_error"], [k |-> "unparsable"]}
    \cup {[k |-> "json", direction |-> "up", confidence |-> c, drivers |-> <<>>] :
           c \in RawConfidences}

InitJudge ==
  /\ pc = "judge"
  /\ metricIdle
  /\ aggregate = None
  /\ given = None
  /\ pricePrediction = None
  /\ replayPrediction = None
  /\ mainIdle

\* One article judged by the three adapter operations, each on its own reply.
Judge ==
  /\ pc = "judge"
  /\ Len(enriched) < MaxJudged
  /\ \E rel \in JudgeRelevanceReplies, cls \in JudgeClassifyReplies,
        imp \in JudgePriceImpactReplies :
       enriched' = Append(enriched,
                          [relevance      |-> Val(assessRareEarthRelevance(TRUE, rel).value),
                           classification |-> Val(classifyNews(TRUE, cls).value),
                           priceImpact    |-> Val(assessRareEarthPriceImpact(TRUE, imp).value)])
  /\ UNCHANGED <<pc, metrics, reordered, predictVars, mainVars>>

\* computeBaseMetrics over the judged articles
SummarizeJudged ==
  /\ pc = "judge"
  /\ metrics' = Some(computeBaseMetrics(enriched, Len(enriched)))
  /\ pc' = "judged"
  /\ UNCHANGED <<enriched, reordered, predictVars, mainVars>>

NextJudge == Judge \/ SummarizeJudged

SpecJudge == InitJudge /\ [][NextJudge]_vars

(***************************************************************************)
(* main: the run from the de-duplicated article list to the written        *)
(* snapshot.  The three oracle operations of an article and the synthesis  *)
(* call are network round trips: the reply of each is chosen when it       *)
(* arrives.                                                                *)
(***************************************************************************)
ApiError == [k |-> "api_error"]

Unparsable == [k |-> "unparsable"]

JsonNull == [k |-> "null"]

RelevanceReplies ==
  { ApiError, Unparsable, JsonNull,
    [k |-> "json", relevant |-> TRUE, automotiveRelevant |-> TRUE, category |-> "magnet",
     confidence |-> RawNum(Rat(9, 10))],
    [k |-> "json", relevant |-> TRUE, automotiveRelevant |-> FALSE, category |-> "cathode",
     confidence |-> Missing],
    [k |-> "json", relevant |-> FALSE, automotiveRelevant |-> TRUE, category |-> "magnet",
     confidence |-> RawNum(Rat(3, 2))] }

ClassifyReplies ==
  { ApiError, Unparsable, JsonNull,
    [k |-> "json", sentiment |-> "bearish", impact |-> "sideways",
     confidence |-> RawNum(Rat(3, 2))] }

PriceImpactReplies ==
  { ApiError, Unparsable, JsonNull,
    [k |-> "json", direction |-> "up", confidence |-> RawNum(Rat(9, 10)),
     drivers |-> <<"export controls">>],
    [k |-> "json", direction |-> "down", confidence |-> RawNum(Rat(7, 10)),
     drivers |-> <<>>] }

Headlines ==
  << <<"Lithium", "supply", "update">>, <<"Cobalt", "prices", "Surge">>,
     <<"Nickel", "prices", "Plunge">> >>

\* The k-th article of the news source: its URL is its identity.
CorpusArticle(k) ==
  [id |-> k, url |-> k, title |-> Headlines[((k - 1) % Len(Headlines)) + 1],
   payload |-> <<0, 0, 0>>]

\* The de-duplicated lists a fetch may end with.
ArticleLists == { [k \in 1..n |-> CorpusArticle(k)] : n \in 0..MaxArticles }

\* articles.slice(i, i + BATCH_SIZE)
Batch == SubSeq(articles, i + 1, Min(i + BatchSize, Len(articles)))

\* A filter that looks at the relevant flag alone.
OnlyRelevant(relevance) == relevance.relevant

\* index.ts line 139: what lets an article through.
PassesFilter(relevance) == relevance.relevant /\ relevance.automotiveRelevant

NewTask(article) ==
  [article |-> article, st |-> "rel_wait", threw |-> FALSE, relevance |-> DefaultRelevance,
   classification |-> None, priceImpact |-> None, value |-> None,
   clsFailed |-> FALSE, piFailed |-> FALSE, rank |-> 0]

\* A task has settled when its promise has resolved or rejected.
Settled(task) == task.st \in {"done", "rejected"}

\* The tasks after a step, each newly settled one stamped with its place in the order
\* in which the promises of the group settled (rank 0: still pending).
Settle(old, new) ==
  [k \in 1..Len(new) |->
     IF Settled(new[k]) /\ new[k].rank = 0
     THEN [new[k] EXCEPT
             !.rank = Cardinality({m \in 1..Len(old) : old[m].rank > 0})
                      + Cardinality({m \in 1..k : Settled(new[m]) /\ new[m].rank = 0})]
     ELSE new[k]]

\* The other policy for a disabled oracle: skip the relevance call and enrich every
\* article with the static defaults.
StartTaskStaticDefaults(article) ==
  IF cfg.aiEnabled THEN NewTask(article)
  ELSE [NewTask(article) EXCEPT !.st = "calls_wait",
                                !.relevance = [DefaultRelevance EXCEPT
                                                 !.relevant = TRUE,
                                                 !.automotiveRelevant = TRUE]]

\* A task up to its first await: with the oracle disabled it returns null at once.
StartTask(article) ==
  IF cfg.aiEnabled THEN NewTask(article)
  ELSE IF PassesFilter(DefaultRelevance)
  THEN [NewTask(article) EXCEPT !.st = "calls_wait"]
  ELSE [NewTask(article) EXCEPT !.st = "done"]

\* The same step without the try/catch of lines 126-136: the throw rejects the task.
TaskAfterRelevanceNoCatch(task, r) ==
  IF r.threw THEN [task EXCEPT !.st = "rejected", !.threw = TRUE]
  ELSE IF ~PassesFilter(Val(r.value))
  THEN [task EXCEPT !.st = "done", !.relevance = Val(r.value)]
  ELSE [task EXCEPT !.st = "calls_wait", !.relevance = Val(r.value)]

\* A task when its relevance call has settled (r is what the adapter returned or threw).
TaskAfterRelevance(task, r) ==
  IF r.threw THEN [task EXCEPT !.st = "done", !.threw = TRUE]
  ELSE IF ~PassesFilter(Val(r.value))
  THEN [task EXCEPT !.st = "done", !.relevance = Val(r.value)]
  ELSE [task EXCEPT !.st = "calls_wait", !.relevance = Val(r.value)]

\* Promise.all([analyze, priceImpact]) resolves when both have: the task returns its entry.
TaskAfterCall(task) ==
  IF task.classification # None /\ task.priceImpact # None
  THEN [task EXCEPT !.st = "done",
                    !.value = Some([article |-> task.article,
                                    relevance |-> task.relevance,
                                    classification |-> Val(task.classification),
                                    priceImpact |-> Val(task.priceImpact)])]
  ELSE task

\* The entries of a group gathered in the order in which its promises settled.
BatchResultsByCompletion(settled) ==
  LET slotAt(r) == CHOOSE k \in 1..Len(settled) : settled[k].rank = r
      byRank == [r \in 1..Len(settled) |-> settled[slotAt(r)].value]
      kept   == SelectSeq(byRank, LAMBDA v : v # None)
  IN  [k \in 1..Len(kept) |-> Val(kept[k])]

\* batchResults.filter(r => r !== null)
BatchResults(settled) ==
  LET kept == SelectSeq([k \in 1..Len(settled) |-> settled[k].value], LAMBDA v : v # None)
  IN  [k \in 1..Len(kept) |-> Val(kept[k])]

JsonNullValue == [null |-> TRUE]

\* JSON.stringify of a number: NaN and the infinities are written as null.
JsonNumber(x) == IF IsFinite(x) THEN x ELSE JsonNullValue

\* JSON.stringify(aggregate)
ToJson(a) ==
  [a EXCEPT
     !.avgRelevanceConfidence = JsonNumber(@),
     !.avgSentimentConfidence = JsonNumber(@),
     !.avgPriceImpactConfidence = JsonNumber(@),
     !.pricePrediction =
        IF @ = None THEN None
        ELSE Some([Val(@) EXCEPT !.predictedChangePercent = JsonNumber(@),
                                 !.predictedChangeUSD = JsonNumber(@),
                                 !.confidence = JsonNumber(@),
                                 !.baselineVolatility = JsonNumber(@),
                                 !.newsImpactMultiplier = JsonNumber(@),
                                 !.priceTarget = JsonNumber(@)])]

\* index.ts 192-193
AttachPrediction(a) ==
  LET p == predict(a) IN [p.aggregate EXCEPT !.pricePrediction = Some(p.forecast)]

(***************************************************************************)
(* output/: the files a prediction-only run finds.                         *)
(***************************************************************************)
\* Largest modification time of a file found at startup.
MaxMtime == 2

\* Largest number of files found at startup.
MaxFiles == 2

\* What a file of output/ can be: a summary an earlier run wrote, a summary file whose
\* text is not JSON, or a file with another name.
FileKinds ==
  { [summary |-> TRUE, ok |-> TRUE, json |-> ToJson(AttachPrediction(ExampleSnapshot))],
    [summary |-> TRUE, ok |-> TRUE,
     json |-> ToJson(AttachPrediction(
                Snapshot([up |-> 0, down |-> 2, uncertain |-> 1],
                         [bullish |-> 0, bearish |-> 2, neutral |-> 1],
                         <<Rat(6, 10), Rat(5, 10), Rat(4, 10)>>, <<"oversupply">>)))],
    [summary |-> TRUE, ok |-> FALSE, json |-> None],
    [summary |-> FALSE, ok |-> TRUE, json |-> None] }

Files == {[mtime |-> t, file |-> f] : t \in 1..MaxMtime, f \in FileKinds}

Disks == UNION { [1..n -> Files] : n \in 0..MaxFiles }

\* files.sort((a, b) => b.mtime - a.mtime)[0]: the sort is stable, so among the files
\* modified last the first in directory order comes first.
LatestFile(files) ==
  files[CHOOSE j \in 1..Len(files) :
          /\ \A h \in 1..Len(files) : files[h].mtime <= files[j].mtime
          /\ \A h \in 1..(j - 1) : files[h].mtime < files[j].mtime]

\* index.ts 276-307: null when there is no summary file or the newest cannot be parsed.
loadLatestAggregateSummary(dir) ==
  LET files == SelectSeq(dir, LAMBDA f : f.file.summary)
  IN  IF files = <<>> THEN None
      ELSE IF ~LatestFile(files).file.ok THEN None
      ELSE Some(LatestFile(files).file.json)

\* statSync(outDir): the path is a directory, does not exist (statSync throws), or is
\* something else.
OutDirKinds == {"directory", "missing", "not_directory"}

LOAD_FAILED == "[error] Failed to load aggregate summary:"

NO_SUMMARY == "[error] No existing aggregate summary found in output/ directory. Run without SKIP_FETCH first."

\* index.ts 276-307 with its console.error: the value returned and the lines written.
LoadResult(kind, dir) ==
  LET files == SelectSeq(dir, LAMBDA f : f.file.summary)
  IN  IF kind = "missing" THEN [value |-> None, logged |-> <<LOAD_FAILED>>]
      ELSE IF kind = "not_directory" THEN [value |-> None, logged |-> <<>>]
      ELSE [value  |-> loadLatestAggregateSummary(dir),
            logged |-> IF files # <<>> /\ ~LatestFile(files).file.ok
                       THEN <<LOAD_FAILED>> ELSE <<>>]

Init ==
  /\ pc = "start"
  /\ cfg \in [newsApiKey : BOOLEAN, aiEnabled : BOOLEAN, skipFetch : BOOLEAN]
  /\ outDir \in (IF cfg.skipFetch THEN OutDirKinds ELSE {"directory"})
  /\ disk \in (IF cfg.skipFetch /\ outDir = "directory" THEN Disks ELSE {<<>>})
  /\ reported = <<>>
  /\ invoked = NoCalls
  /\ articles = <<>>
  /\ i = 0
  /\ tasks = <<>>
  /\ results = <<>>
  /\ output = None
  /\ synth = None
  /\ aggregate = None
  /\ given = None
  /\ pricePrediction = None
  /\ replayPrediction = None
  /\ fetchIdle
  /\ metricIdle

predictIdle == <<given, replayPrediction, metricVars>>

\* index.ts 54-59: without a fetcher the run ends at once.
Start ==
  /\ pc = "start"
  /\ ~cfg.skipFetch
  /\ pc' = IF cfg.newsApiKey THEN "fetch" ELSE "exit0"
  /\ UNCHANGED <<cfg, articles, i, tasks, results, output, aggregate, pricePrediction,
                 predictIdle, ioVars, fetchVars>>

\* The prediction-only run with a persisting step added at its end.
ReplayAndPersist ==
  /\ pc = "start"
  /\ cfg.skipFetch
  /\ LET load   == LoadResult(outDir, disk)
         loaded == load.value
     IN  IF loaded = None
         THEN /\ reported' = reported \o load.logged \o <<NO_SUMMARY>>
              /\ UNCHANGED <<aggregate, pricePrediction, output>>
         ELSE /\ reported' = reported \o load.logged
              /\ aggregate' = Some(predict(Val(loaded)).aggregate)
              /\ pricePrediction' = Some(predict(Val(loaded)).forecast)
              /\ output' = Some(ToJson(AttachPrediction(Val(loaded))))
  /\ pc' = "exit0"
  /\ UNCHANGED <<cfg, articles, i, tasks, results, predictIdle, synth, disk, outDir,
                 invoked, fetchVars>>

\* The prediction-only run with a loader that has no try/catch: a missing directory or
\* an unparsable file rejects main.
ReplayNoCatch ==
  /\ pc = "start"
  /\ cfg.skipFetch
  /\ LET load   == LoadResult(outDir, disk)
         loaded == load.value
     IN  IF load.logged # <<>>
         THEN /\ pc' = "exit1"
              /\ UNCHANGED <<aggregate, pricePrediction, reported>>
         ELSE IF loaded = None
         THEN /\ pc' = "exit0"
              /\ reported' = reported \o <<NO_SUMMARY>>
              /\ UNCHANGED <<aggregate, pricePrediction>>
         ELSE /\ pc' = "exit0"
              /\ reported' = reported
              /\ aggregate' = Some(predict(Val(loaded)).aggregate)
              /\ pricePrediction' = Some(predict(Val(loaded)).forecast)
  /\ UNCHANGED <<cfg, articles, i, tasks, results, output, predictIdle, synth, disk, outDir,
                 invoked, fetchVars>>

\* index.ts 38-52, 312-359: the prediction-only run.
Replay ==
  /\ pc = "start"
  /\ cfg.skipFetch
  /\ LET load   == LoadResult(outDir, disk)
         loaded == load.value
     IN  IF loaded = None
         THEN /\ reported' = reported \o load.logged \o <<NO_SUMMARY>>
              /\ UNCHANGED <<aggregate, pricePrediction>>
         ELSE /\ reported' = reported \o load.logged
              /\ aggregate' = Some(predict(Val(loaded)).aggregate)
              /\ pricePrediction' = Some(predict(Val(loaded)).forecast)
  /\ pc' = "exit0"
  /\ UNCHANGED <<cfg, articles, i, tasks, results, output, predictIdle, synth, disk, outDir,
                 invoked, fetchVars>>

\* index.ts 73-88: every query fetched, the articles merged by URL.
Fetched ==
  /\ pc = "fetch"
  /\ articles' \in ArticleLists
  /\ i' = 0
  /\ results' = <<>>
  /\ pc' = "enrich_loop"
  /\ UNCHANGED <<cfg, tasks, output, aggregate, pricePrediction, predictIdle, ioVars, fetchVars>>

\* fetchWithRetry line 98
RateLimitError == [kind |-> "rate_limit", status |-> 429, body |-> ""]

\* fetchWithRetry lines 103-106: `NewsAPI error ${res.status}: ${text}`
UpstreamError(status, body) == [kind |-> "upstream", status |-> status, body |-> body]

\* fetch itself rejected (no response): the error is rethrown.
NetworkError == [kind |-> "network", status |-> 0, body |-> ""]

\* The responses that are neither a success nor a 429.
ErrorResponses ==
  { [status |-> 401, body |-> "apiKeyInvalid"], [status |-> 500, body |-> "unexpectedError"] }

TooManyRequests == [status |-> 429, body |-> "rateLimited"]

FetchErrors ==
  {RateLimitError, NetworkError} \cup {UpstreamError(r.status, r.body) : r \in ErrorResponses}

\* index.ts 76, 361-366: a fetch that throws rejects main.
FetchRejected ==
  /\ pc = "fetch"
  /\ \E e \in FetchErrors : failure' = Some(e)
  /\ pc' = "exit1"
  /\ UNCHANGED <<cfg, articles, i, tasks, results, output, aggregate, pricePrediction,
                 predictIdle, ioVars, queryIndex, allArticles, request, seen, requested>>

\* The same step issuing all three calls of every article of the group at once.
StartBatchEager ==
  /\ pc = "enrich_loop"
  /\ i < Len(articles)
  /\ tasks' = Settle(<<>>, [k \in 1..Len(Batch) |-> StartTask(Batch[k])])
  /\ invoked' = IF cfg.aiEnabled
                THEN Issue(invoked, {"rel", "cls", "pi"}, (i + 1)..(i + Len(Batch)))
                ELSE invoked
  /\ pc' = "await_batch"
  /\ UNCHANGED <<cfg, articles, i, results, output, aggregate, pricePrediction, predictIdle,
                 synth, disk, outDir, reported, fetchVars>>

\* index.ts 104-153: the group is sliced and every task runs to its first await.
StartBatch ==
  /\ pc = "enrich_loop"
  /\ i < Len(articles)
  /\ tasks' = Settle(<<>>, [k \in 1..Len(Batch) |-> StartTask(Batch[k])])
  /\ invoked' = IF cfg.aiEnabled THEN Issue(invoked, {"rel"}, (i + 1)..(i + Len(Batch)))
                ELSE invoked
  /\ pc' = "await_batch"
  /\ UNCHANGED <<cfg, articles, i, results, output, aggregate, pricePrediction, predictIdle,
                 synth, disk, outDir, reported, fetchVars>>

\* The same step issuing the relevance call a second time when the first was rejected.
RelevanceReturnsRetry(k) ==
  /\ pc = "await_batch"
  /\ tasks[k].st = "rel_wait"
  /\ \E reply \in RelevanceReplies :
       IF reply.k = "api_error" /\ invoked.rel[i + k] < 2
       THEN tasks' = tasks
       ELSE tasks' = Settle(tasks, [tasks EXCEPT
                        ![k] = TaskAfterRelevance(@, assessRareEarthRelevance(cfg.aiEnabled,
                                                                               reply))])
  /\ invoked' = IF tasks'[k].st = "calls_wait" /\ cfg.aiEnabled
                THEN Issue(invoked, {"cls", "pi"}, {i + k})
                ELSE IF tasks' = tasks THEN Issue(invoked, {"rel"}, {i + k})
                ELSE invoked
  /\ UNCHANGED <<pc, cfg, articles, i, results, output, aggregate, pricePrediction,
                 predictIdle, synth, disk, outDir, reported, fetchVars>>

\* index.ts 126-139: the relevance call of task k settles.
RelevanceReturns(k) ==
  /\ pc = "await_batch"
  /\ tasks[k].st = "rel_wait"
  /\ \E reply \in RelevanceReplies :
       tasks' = Settle(tasks, [tasks EXCEPT
                   ![k] = TaskAfterRelevance(@, assessRareEarthRelevance(cfg.aiEnabled, reply))])
  /\ invoked' = IF tasks'[k].st = "calls_wait" /\ cfg.aiEnabled
                THEN Issue(invoked, {"cls", "pi"}, {i + k})
                ELSE invoked
  /\ UNCHANGED <<pc, cfg, articles, i, results, output, aggregate, pricePrediction,
                 predictIdle, synth, disk, outDir, reported, fetchVars>>

\* index.ts 143-148: the sentiment call of task k settles.
ClassifyReturns(k) ==
  /\ pc = "await_batch"
  /\ tasks[k].st = "calls_wait"
  /\ tasks[k].classification = None
  /\ \E reply \in ClassifyReplies :
       tasks' = Settle(tasks, [tasks EXCEPT
                   ![k] = TaskAfterCall(
                            [tasks[k] EXCEPT
                               !.classification =
                                  Some(analyze(cfg.aiEnabled, reply, tasks[k].article.title)),
                               !.clsFailed = reply.k # "json"])])
  /\ UNCHANGED <<pc, cfg, articles, i, results, output, aggregate, pricePrediction,
                 predictIdle, ioVars, fetchVars>>

\* index.ts 149: the price-impact call of task k settles.
PriceImpactReturns(k) ==
  /\ pc = "await_batch"
  /\ tasks[k].st = "calls_wait"
  /\ tasks[k].priceImpact = None
  /\ \E reply \in PriceImpactReplies :
       tasks' = Settle(tasks, [tasks EXCEPT
                   ![k] = TaskAfterCall(
                            [tasks[k] EXCEPT
                               !.priceImpact = Some(priceImpact(cfg.aiEnabled, reply)),
                               !.piFailed = reply.k # "json"])])
  /\ UNCHANGED <<pc, cfg, articles, i, results, output, aggregate, pricePrediction,
                 predictIdle, ioVars, fetchVars>>

\* The same step not waiting for the whole group: it pushes what has resolved so far.
PushBatchPartial ==
  /\ pc = "await_batch"
  /\ \E k \in 1..Len(tasks) : tasks[k].st = "done"
  /\ results' = results \o BatchResults(tasks)
  /\ i' = i + BatchSize
  /\ pc' = "enrich_loop"
  /\ UNCHANGED <<cfg, articles, tasks, output, aggregate, pricePrediction, predictIdle, ioVars, fetchVars>>

\* index.ts 155-156: Promise.all of the group; a rejected task would reject main.
PushBatch ==
  /\ pc = "await_batch"
  /\ IF \E k \in 1..Len(tasks) : tasks[k].st = "rejected"
     THEN /\ pc' = "exit1"
          /\ UNCHANGED <<results, i>>
     ELSE /\ \A k \in 1..Len(tasks) : tasks[k].st = "done"
          /\ results' = results \o BatchResults(tasks)
          /\ i' = i + BatchSize
          /\ pc' = "enrich_loop"
  /\ UNCHANGED <<cfg, articles, tasks, output, aggregate, pricePrediction, predictIdle, ioVars, fetchVars>>

\* index.ts 104, 157: the loop ends; the group's promises go out of scope.
EndEnrich ==
  /\ pc = "enrich_loop"
  /\ i >= Len(articles)
  /\ tasks' = <<>>
  /\ pc' = "aggregate"
  /\ UNCHANGED <<cfg, articles, i, results, output, aggregate, pricePrediction, predictIdle,
                 ioVars, fetchVars>>

Str(s) == [isString |-> TRUE, s |-> s]

NotAString == [isString |-> FALSE, s |-> <<>>]

Dist3(a, b, c) == <<a, b, c>>

\* What the synthesis call may bring back: the counts are the oracle's own.
SynthReply(p, q, drivers, narrative, suggestion) ==
  [k |-> "json",
   pid |-> [up |-> p[1], down |-> p[2], uncertain |-> p[3]],
   sd |-> [bullish |-> q[1], bearish |-> q[2], neutral |-> q[3]],
   drivers |-> drivers, narrative |-> narrative, suggestion |-> suggestion]

SynthReplies ==
  { ApiError, Unparsable, JsonNull,
    SynthReply(Dist3(RawNum(1), RawNum(0), RawNum(0)), Dist3(RawNum(1), RawNum(0), RawNum(0)),
               <<"Export controls">>,
               Str(<<Tok(" ", 1), Tok("Supply", 6), Tok("\n", 2), Tok("tightens", 8),
                     Tok(" ", 1), Tok("mid", 3), Tok("-", 1), Tok(" ", 1), Tok("term", 4),
                     Tok(" ", 2)>>),
               Str(<<ActionTok("BUY:"), Tok(" supply is tightening ", 22), DISCLAIMER>>)),
    SynthReply(Dist3(RawNum(0), RawNum(1), RawNum(9)), Dist3(Missing, RawNum(1), RawText),
               <<>>, NotAString, NotAString),
    SynthReply(Dist3(RawNum(1), RawNum(0), RawNum(-2)), Dist3(RawNum(0), RawNum(0), RawNum(1)),
               <<"stockpiling">>, Str(<<Tok("Mixed signals.", 14)>>),
               Str(<<Tok("Consider accumulating", 21)>>)),
    SynthReply(Dist3(RawNum(0), RawNum(0), RawNum(1)), Dist3(RawNum(0), RawNum(1), RawNum(0)),
               <<>>, Str(<<Tok("Demand", 6), Tok(" ", 1), Tok("softens", 7)>>),
               Str(<<ActionTok("SELL:"),
                     Tok(" demand is softening across the sector while inventories keep rising and spot prices drift lower every month. ",
                         110),
                     DISCLAIMER>>)) }

IsWs(t) == t.w \in {" ", "\n"}

RECURSIVE DropWs(_)
\* s without its leading white space
DropWs(s) == IF s # <<>> /\ IsWs(Head(s)) THEN DropWs(Tail(s)) ELSE s

RECURSIVE DropWsEnd(_)
DropWsEnd(s) ==
  IF s # <<>> /\ IsWs(s[Len(s)]) THEN DropWsEnd(SubSeq(s, 1, Len(s) - 1)) ELSE s

RECURSIVE Collapse(_)
\* replace(/\n+/g, " ").replace(/\s{2,}/g, " "): every run of white space is one space.
Collapse(s) ==
  IF s = <<>> THEN <<>>
  ELSE IF IsWs(Head(s)) THEN <<Tok(" ", 1)>> \o Collapse(DropWs(Tail(s)))
  ELSE <<Head(s)>> \o Collapse(Tail(s))

RECURSIVE JoinHyphen(_)
\* replace(/-\s+/g, "-")
JoinHyphen(s) ==
  IF s = <<>> THEN <<>>
  ELSE IF Head(s).w = "-" THEN <<Head(s)>> \o JoinHyphen(DropWs(Tail(s)))
  ELSE <<Head(s)>> \o JoinHyphen(Tail(s))

\* index.ts 242-246
cleanNarrative(narrative) == DropWsEnd(DropWs(JoinHyphen(Collapse(narrative))))

\* index.ts 160-189: the snapshot main holds after the synthesis call has settled.
AggregateOf(r) ==
  IF r.threw THEN AggregateErrorSnapshot(Len(articles), Len(results)) ELSE Val(r.value)

\* OpenAIService.ts 203: the synthesis request is sent only with a client and with items.
OracleConsulted == cfg.aiEnabled /\ Len(results) # 0

\* The same step writing the snapshot as soon as the synthesis has settled.
AggregateWritesEarly ==
  /\ pc = "aggregate"
  /\ \E reply \in (IF OracleConsulted THEN SynthReplies ELSE {ApiError}) :
       LET a == AggregateOf(summarizeAggregate(cfg.aiEnabled, results, Len(articles), reply))
       IN  /\ aggregate' = Some(AttachPrediction(a))
           /\ pricePrediction' = Some(predict(a).forecast)
           /\ synth' = IF OracleConsulted THEN Some(reply) ELSE None
           /\ invoked' = IF OracleConsulted THEN Issue(invoked, {"synth"}, {}) ELSE invoked
           /\ output' = Some(ToJson(a))
  /\ pc' = "report"
  /\ UNCHANGED <<cfg, articles, i, tasks, results, predictIdle, disk, outDir, reported,
                 fetchVars>>

\* index.ts 160-193: the synthesis call settles, the forecast is computed and attached.
Aggregate ==
  /\ pc = "aggregate"
  /\ \E reply \in (IF OracleConsulted THEN SynthReplies ELSE {ApiError}) :
       LET a == AggregateOf(summarizeAggregate(cfg.aiEnabled, results, Len(articles), reply))
       IN  /\ aggregate' = Some(AttachPrediction(a))
           /\ pricePrediction' = Some(predict(a).forecast)
           /\ synth' = IF OracleConsulted THEN Some(reply) ELSE None
           /\ invoked' = IF OracleConsulted THEN Issue(invoked, {"synth"}, {}) ELSE invoked
  /\ pc' = "report"
  /\ UNCHANGED <<cfg, articles, i, tasks, results, output, predictIdle, disk, outDir, reported,
                 fetchVars>>

\* index.ts 242-270: the narrative is cleaned and the snapshot written; a failed write is
\* only logged.
Persist ==
  /\ pc = "report"
  /\ LET a == [Val(aggregate) EXCEPT !.narrative = cleanNarrative(@)]
     IN  /\ aggregate' = Some(a)
         /\ \E written \in BOOLEAN : output' = IF written THEN Some(ToJson(a)) ELSE None
  /\ pc' = "exit0"
  /\ UNCHANGED <<cfg, articles, i, tasks, results, pricePrediction, predictIdle, ioVars, fetchVars>>

Next ==
  \/ Start
  \/ Replay
  \/ Fetched
  \/ FetchRejected
  \/ StartBatch
  \/ \E k \in 1..Len(tasks) : RelevanceReturns(k)
  \/ \E k \in 1..Len(tasks) : ClassifyReturns(k)
  \/ \E k \in 1..Len(tasks) : PriceImpactReturns(k)
  \/ PushBatch
  \/ EndEnrich
  \/ Aggregate
  \/ Persist

Spec == Init /\ [][Next]_vars

(***************************************************************************)
(* The query loop of main and NewsApiFetcher, request by request.          *)
(***************************************************************************)
\* fetchWithRetry gives up when a 429 arrives on an attempt beyond this one.
RetryLimit == 3

Urls == 1..NumUrls

\* The article lists one page of a response can carry (URLs in order).
PageContents == UNION { [1..n -> Urls] : n \in 0..PageSize }

\* The raw article at position pos of page `page` of query q: the payload is the sighting.
RawArticle(u, q, page, pos) ==
  [url |-> u, title |-> CorpusArticle(u).title, payload |-> <<q, page, pos>>]

normalizeNewsApiArticle(a) ==
  [id |-> a.url, url |-> a.url, title |-> a.title, payload |-> a.payload]

\* fetchEverything: the articles of a 200 response, normalised.
fetchEverything(body, q, page) ==
  [pos \in 1..Len(body) |-> normalizeNewsApiArticle(RawArticle(body[pos], q, page, pos))]

\* A map that keeps the value it saw first.
MapSetKeepFirst(map, key, value) ==
  IF \E j \in 1..Len(map) : map[j].key = key THEN map
  ELSE Append(map, [key |-> key, value |-> value])

\* Map.set: a known key keeps its place and takes the new value.
MapSet(map, key, value) ==
  IF \E j \in 1..Len(map) : map[j].key = key
  THEN [j \in 1..Len(map) |-> IF map[j].key = key THEN [key |-> key, value |-> value]
                               ELSE map[j]]
  ELSE Append(map, [key |-> key, value |-> value])

RECURSIVE MapOf(_)
\* A Map filled by forEach from a list of [key, value] pairs.
MapOf(pairs) ==
  IF pairs = <<>> THEN <<>>
  ELSE MapSet(MapOf(SubSeq(pairs, 1, Len(pairs) - 1)),
              pairs[Len(pairs)].key, pairs[Len(pairs)].value)

\* [...map.values()]
MapValues(map) == [j \in 1..Len(map) |-> map[j].value]

\* NewsApiFetcher.ts 51-54
DedupById(all) == MapValues(MapOf([j \in 1..Len(all) |-> [key |-> all[j].id, value |-> all[j]]]))

\* index.ts 85-87
DedupByUrl(all) ==
  MapValues(MapOf([j \in 1..Len(all) |-> [key |-> all[j].url, value |-> all[j]]]))

\* The first request for a page: fetchWithRetry(url) with attempt = 1.
NewRequest(page, all) ==
  [page |-> page, attempt |-> 1, all |-> all, waits |-> <<>>, response |-> None]

\* index.ts 73-76: the next query is sent (fetchAllPages, page 1, first attempt).
SendQuery ==
  /\ pc = "fetch"
  /\ queryIndex < NumQueries
  /\ request' = Some(NewRequest(1, <<>>))
  /\ requested' = Append(requested, <<queryIndex, 1>>)
  /\ pc' = "request"
  /\ UNCHANGED <<cfg, articles, i, tasks, results, output, aggregate, pricePrediction,
                 predictIdle, ioVars, queryIndex, allArticles, seen, failure>>

\* The same handler going on to the next page after a short page.
Respond200PastShortPage ==
  /\ pc = "request"
  /\ \E body \in PageContents :
       LET r     == Val(request)
           batch == fetchEverything(body, queryIndex, r.page)
           all   == IF Len(batch) = 0 THEN r.all ELSE r.all \o batch
           more  == Len(batch) # 0 /\ r.page + 1 <= PageLimit
       IN  /\ seen' = seen \o batch
           /\ IF more
              THEN /\ request' = Some(NewRequest(r.page + 1, all))
                   /\ requested' = Append(requested, <<queryIndex, r.page + 1>>)
                   /\ UNCHANGED <<pc, queryIndex, allArticles>>
              ELSE /\ request' = None
                   /\ allArticles' = allArticles \o DedupById(all)
                   /\ queryIndex' = queryIndex + 1
                   /\ pc' = "fetch"
                   /\ UNCHANGED requested
  /\ UNCHANGED <<cfg, articles, i, tasks, results, output, aggregate, pricePrediction,
                 predictIdle, ioVars, failure>>

\* A 200 response: fetchAllPages goes on to the next page or returns to main's loop.
Respond200 ==
  /\ pc = "request"
  /\ \E body \in PageContents :
       LET r     == Val(request)
           batch == fetchEverything(body, queryIndex, r.page)
           all   == IF Len(batch) = 0 THEN r.all ELSE r.all \o batch
           more  == Len(batch) # 0 /\ ~(Len(batch) < PageSize) /\ r.page + 1 <= PageLimit
       IN  /\ seen' = seen \o batch
           /\ IF more
              THEN /\ request' = Some(NewRequest(r.page + 1, all))
                   /\ requested' = Append(requested, <<queryIndex, r.page + 1>>)
                   /\ UNCHANGED <<pc, queryIndex, allArticles>>
              ELSE /\ request' = None
                   /\ allArticles' = allArticles \o DedupById(all)
                   /\ queryIndex' = queryIndex + 1
                   /\ pc' = "fetch"
                   /\ UNCHANGED requested
  /\ UNCHANGED <<cfg, articles, i, tasks, results, output, aggregate, pricePrediction,
                 predictIdle, ioVars, failure>>

\* The same handler giving up one attempt later.
Respond429OneMore ==
  /\ pc = "request"
  /\ IF Val(request).attempt > RetryLimit + 1
     THEN /\ pc' = "exit1"
          /\ failure' = Some(RateLimitError)
          /\ request' = Some([Val(request) EXCEPT !.response = Some(TooManyRequests)])
     ELSE /\ request' = Some([Val(request) EXCEPT
                                !.waits = Append(@, 1000 * Val(request).attempt * 5),
                                !.attempt = @ + 1,
                                !.response = Some(TooManyRequests)])
          /\ UNCHANGED <<pc, failure>>
  /\ UNCHANGED <<cfg, articles, i, tasks, results, output, aggregate, pricePrediction,
                 predictIdle, ioVars, queryIndex, allArticles, seen, requested>>

\* A 429 response: wait and retry, or throw after the last retry; the throw rejects main.
Respond429 ==
  /\ pc = "request"
  /\ IF Val(request).attempt > RetryLimit
     THEN /\ pc' = "exit1"
          /\ failure' = Some(RateLimitError)
          /\ request' = Some([Val(request) EXCEPT !.response = Some(TooManyRequests)])
     ELSE /\ request' = Some([Val(request) EXCEPT
                                !.waits = Append(@, 1000 * Val(request).attempt * 5),
                                !.attempt = @ + 1,
                                !.response = Some(TooManyRequests)])
          /\ UNCHANGED <<pc, failure>>
  /\ UNCHANGED <<cfg, articles, i, tasks, results, output, aggregate, pricePrediction,
                 predictIdle, ioVars, queryIndex, allArticles, seen, requested>>

\* A response that is neither a success nor a 429, handled as a 429 is: wait and retry.
RespondErrorRetried(resp) ==
  /\ pc = "request"
  /\ Val(request).attempt <= RetryLimit
  /\ request' = Some([Val(request) EXCEPT
                        !.waits = Append(@, 1000 * Val(request).attempt * 5),
                        !.attempt = @ + 1,
                        !.response = Some(resp)])
  /\ UNCHANGED <<cfg, articles, i, tasks, results, output, aggregate, pricePrediction,
                 predictIdle, ioVars, pc, queryIndex, allArticles, seen, requested, failure>>

\* A response that is neither a success nor a 429: fetchWithRetry throws, main rejects.
RespondError(resp) ==
  /\ pc = "request"
  /\ request' = Some([Val(request) EXCEPT !.response = Some(resp)])
  /\ failure' = Some(UpstreamError(resp.status, resp.body))
  /\ pc' = "exit1"
  /\ UNCHANGED <<cfg, articles, i, tasks, results, output, aggregate, pricePrediction,
                 predictIdle, ioVars, queryIndex, allArticles, seen, requested>>

\* fetch rejects without a response (network or TLS fault): rethrown, main rejects.
FetchThrows ==
  /\ pc = "request"
  /\ request' = Some([Val(request) EXCEPT !.response = None])
  /\ failure' = Some(NetworkError)
  /\ pc' = "exit1"
  /\ UNCHANGED <<cfg, articles, i, tasks, results, output, aggregate, pricePrediction,
                 predictIdle, ioVars, queryIndex, allArticles, seen, requested>>

\* index.ts 84-88: all queries fetched, the articles are merged by URL.
MergeArticles ==
  /\ pc = "fetch"
  /\ ~(queryIndex < NumQueries)
  /\ articles' = DedupByUrl(allArticles)
  /\ pc' = "enrich_loop"
  /\ UNCHANGED <<cfg, i, tasks, results, output, aggregate, pricePrediction, predictIdle,
                 ioVars, fetchVars>>

NextFetch ==
  \/ Start
  \/ SendQuery
  \/ Respond200
  \/ Respond429
  \/ \E resp \in ErrorResponses : RespondError(resp)
  \/ FetchThrows
  \/ MergeArticles

InitFetch == Init /\ ~cfg.skipFetch

SpecFetch == InitFetch /\ [][NextFetch]_vars

\* Every request sent is answered, and main runs on when it can.
SpecFetchFair == SpecFetch /\ WF_vars(NextFetch)

(***************************************************************************)
(* Properties.                                                             *)
(***************************************************************************)
ResultsOf(article) == {j \in 1..Len(results) : results[j].article = article}

\* A group has been awaited and pushed, and its tasks are still in hand.
GroupPushed == pc = "enrich_loop" /\ tasks # <<>>

\* C1 (Spec): when the relevance assessment of an article of a group throws, that article
\* is missing from the results, every other article of the group assessed relevant and
\* automotive-relevant is in the results exactly once, and the run is not aborted.
EnrichmentPartialFailure ==
  /\ (\E k \in 1..Len(tasks) : tasks[k].threw) => pc # "exit1"
  /\ GroupPushed =>
       \A k \in 1..Len(tasks) :
         /\ tasks[k].threw => ResultsOf(tasks[k].article) = {}
         /\ (~tasks[k].threw /\ tasks[k].relevance.relevant
               /\ tasks[k].relevance.automotiveRelevant)
              => Cardinality(ResultsOf(tasks[k].article)) = 1

\* A full group in which one relevance call threw and every other article was kept.
EnrichmentPartialFailureWitness ==
  /\ GroupPushed
  /\ Len(tasks) = BatchSize
  /\ Cardinality({k \in 1..Len(tasks) : tasks[k].threw}) = 1
  /\ \A k \in 1..Len(tasks) : ~tasks[k].threw => tasks[k].value # None
  /\ Len(results) = BatchSize - 1

\* C2 (Spec): in every state every entry of the results list has relevance.relevant and
\* relevance.automotiveRelevant true; an article assessed with either flag false is
\* never added.
FilterInvariant ==
  /\ \A j \in 1..Len(results) :
       results[j].relevance.relevant /\ results[j].relevance.automotiveRelevant
  /\ \A k \in 1..Len(tasks) :
       (tasks[k].st = "done"
          /\ ~(tasks[k].relevance.relevant /\ tasks[k].relevance.automotiveRelevant))
         => tasks[k].value = None /\ ResultsOf(tasks[k].article) = {}

\* A pushed group with one article kept and one assessed relevant but not automotive.
FilterInvariantWitness ==
  /\ GroupPushed
  /\ Len(results) >= 1
  /\ \E k \in 1..Len(tasks) :
       /\ ~tasks[k].threw
       /\ tasks[k].relevance.relevant
       /\ ~tasks[k].relevance.automotiveRelevant

\* C3 (Spec): every snapshot the run produces has up + down + uncertain = totalRelevant
\* and bullish + bearish + neutral = totalRelevant, whatever the oracle returned.
DistributionSumInvariant ==
  aggregate # None =>
    LET a == Val(aggregate)
    IN  /\ a.priceImpactDistribution.up + a.priceImpactDistribution.down
             + a.priceImpactDistribution.uncertain = a.totalRelevant
        /\ a.sentimentDistribution.bullish + a.sentimentDistribution.bearish
             + a.sentimentDistribution.neutral = a.totalRelevant

\* The identifiers the upstream returned during the run.
SeenUrls == {seen[j].url : j \in 1..Len(seen)}

\* The last sighting of identifier u.
LastSeen(u) ==
  seen[CHOOSE j \in 1..Len(seen) :
         seen[j].url = u /\ \A h \in (j + 1)..Len(seen) : seen[h].url # u]

\* C4 (SpecFetch): after all queries are fetched and merged, no two articles have the same
\* URL, and every URL the upstream returned appears exactly once, with the payload seen
\* last.
DedupLastSeenWins ==
  pc = "enrich_loop" =>
    /\ \A j, h \in 1..Len(articles) : articles[j].url = articles[h].url => j = h
    /\ {articles[j].url : j \in 1..Len(articles)} = SeenUrls
    /\ \A j \in 1..Len(articles) : articles[j] = LastSeen(articles[j].url)

\* One URL came back from two queries, another from two pages of one query.
DedupLastSeenWinsWitness ==
  /\ pc = "enrich_loop"
  /\ \E j, h \in 1..Len(seen) :
       seen[j].url = seen[h].url /\ seen[j].payload[1] # seen[h].payload[1]
  /\ \E j, h \in 1..Len(seen) :
       /\ seen[j].url = seen[h].url
       /\ seen[j].payload[1] = seen[h].payload[1]
       /\ seen[j].payload[2] # seen[h].payload[2]

\* C5 (SpecFetch): a query that fails (rate limit after the retries, or a non-success
\* response) does not abort the run: the run never ends in failure with a query pending.
QueryFailureIsolation == ~(pc = "exit1" /\ request # None)

InUnitInterval(x) == IsFinite(x) /\ RLe(Num(0), x) /\ RLe(x, Num(1))

\* predict has been applied to a snapshot without relevant articles.
EmptySnapshotPredicted ==
  /\ pricePrediction # None
  /\ aggregate # None
  /\ Val(aggregate).totalRelevant = 0
  /\ Val(aggregate).priceImpactDistribution = [up |-> 0, down |-> 0, uncertain |-> 0]
  /\ Val(aggregate).sentimentDistribution = [bullish |-> 0, bearish |-> 0, neutral |-> 0]

\* C6 (Spec): predict on a snapshot with totalRelevant = 0 and all distribution counts 0
\* returns predictedChangePercent = 0 and a confidence that is a number in [0,1].
ForecastBoundary ==
  EmptySnapshotPredicted =>
    /\ Val(pricePrediction).predictedChangePercent = Num(0)
    /\ InUnitInterval(Val(pricePrediction).confidence)

\* C7 (Spec): for every snapshot aggregation produces with totalRelevant >= 1, the
\* distributions the oracle recounted included, the confidence of the forecast is in [0,1].
ForecastConfidenceRange ==
  (pricePrediction # None /\ aggregate # None /\ Val(aggregate).totalRelevant >= 1)
    => InUnitInterval(Val(pricePrediction).confidence)

StartsWithAction(s) ==
  s # <<>> /\ \E action \in {"BUY:", "HOLD:", "SELL:"} : Head(s) = ActionTok(action)

EndsWithDisclaimer(s) == s # <<>> /\ s[Len(s)] = DISCLAIMER

\* C8 (Spec): the suggestion of every snapshot the run produces starts with "BUY:",
\* "HOLD:" or "SELL:" and ends with "(informational, not financial advice)", whatever
\* suggestion the oracle returned.
SuggestionFormat ==
  aggregate # None =>
    StartsWithAction(Val(aggregate).suggestion) /\ EndsWithDisclaimer(Val(aggregate).suggestion)

ReferenceForecast(a) ==
  LET sentimentScore   == calculateSentimentScore(a)
      priceImpactScore == calculatePriceImpactScore(a)
      combinedScore    == CombinedScore(sentimentScore, priceImpactScore)
      multiplier       == RAdd(Num(1), RMul(Rat(8, 10), combinedScore))
      percent          == RMul(RMul(Rat(32, 10), multiplier), Num(Sgn(combinedScore.num)))
      usd              == RDiv(RMul(Num(95), percent), Num(100))
  IN  [newsImpactMultiplier   |-> RoundTo(multiplier, 100),
       predictedChangePercent |-> RoundTo(percent, 100),
       predictedChangeUSD     |-> RoundTo(usd, 100),
       priceTarget            |-> RoundTo(RAdd(Num(95), usd), 100)]

\* C10 (SpecPredict): for every snapshot with non-negative counts predict returns the
\* multiplier, percent, USD change and price target of the reference algorithm; for
\* up=6 down=1 uncertain=1, bullish=5 bearish=1 neutral=2 these are 1.46, 4.67, 4.44, 99.44.
ForecastFormula ==
  pc = "call2" =>
    LET f == Val(pricePrediction)
        r == ReferenceForecast(Val(given))
    IN  /\ f.newsImpactMultiplier = r.newsImpactMultiplier
        /\ f.predictedChangePercent = r.predictedChangePercent
        /\ f.predictedChangeUSD = r.predictedChangeUSD
        /\ f.priceTarget = r.priceTarget
        /\ Val(given) = ExampleSnapshot =>
             /\ f.newsImpactMultiplier = Rat(146, 100)
             /\ f.predictedChangePercent = Rat(467, 100)
             /\ f.predictedChangeUSD = Rat(444, 100)
             /\ f.priceTarget = Rat(9944, 100)

\* The entry of task k in the results list, after its group was pushed.
PushedEntry(k) == results[CHOOSE j \in 1..Len(results) : results[j].article = tasks[k].article]

\* Task k passed the relevance filter and both of its analyses have settled.
Enriched(k) == tasks[k].st = "done" /\ tasks[k].value # None

\* C11 (Spec): an article that passed the relevance filter and whose sentiment call failed
\* is kept in the results, with the classification neutral / flat at low confidence,
\* whatever its title is.
SentimentDegradation ==
  \A k \in 1..Len(tasks) :
    (tasks[k].classification # None /\ tasks[k].clsFailed) =>
      /\ Val(tasks[k].classification).sentiment = "neutral"
      /\ Val(tasks[k].classification).impact = "flat"
      /\ RLe(Val(tasks[k].classification).confidence, Rat(4, 10))
      /\ (GroupPushed /\ Enriched(k)) =>
           /\ Cardinality(ResultsOf(tasks[k].article)) = 1
           /\ PushedEntry(k).classification = Val(tasks[k].classification)

\* C12 (Spec): an article that passed the relevance filter and whose price-impact call
\* failed is kept in the results with direction uncertain, no drivers and a confidence of
\* at most 0.2, whether its sentiment call succeeded or not.
PriceImpactDegradation ==
  \A k \in 1..Len(tasks) :
    (tasks[k].priceImpact # None /\ tasks[k].piFailed) =>
      /\ Val(tasks[k].priceImpact).direction = "uncertain"
      /\ Val(tasks[k].priceImpact).drivers = <<>>
      /\ RLe(Val(tasks[k].priceImpact).confidence, Rat(2, 10))
      /\ (GroupPushed /\ Enriched(k)) =>
           /\ Cardinality(ResultsOf(tasks[k].article)) = 1
           /\ PushedEntry(k).priceImpact = Val(tasks[k].priceImpact)

\* A pushed group with an article whose price-impact call threw and whose sentiment call
\* succeeded, and one where both failed.
PriceImpactDegradationWitness ==
  /\ GroupPushed
  /\ \E k \in 1..Len(tasks) :
       /\ Enriched(k) /\ tasks[k].piFailed /\ ~tasks[k].clsFailed
       /\ Val(tasks[k].priceImpact).reasoning = "ai_disabled"
  /\ \E k \in 1..Len(tasks) : Enriched(k) /\ tasks[k].piFailed /\ tasks[k].clsFailed

\* The synthesis fell back: no client, no enriched article, a failed call or an
\* unparsable response (OpenAIService.ts 203-208, 245-251).
SynthesisFellBack ==
  \/ ~cfg.aiEnabled
  \/ Len(results) = 0
  \/ synth # None /\ Val(synth).k \in {"api_error", "unparsable"}

\* C13 Aggregation fallback: when the oracle is unavailable, the synthesis call fails, its
\* response cannot be parsed or no article was enriched, the snapshot main holds after
\* the synthesis is made of the locally computed base metrics, an empty driver list, the
\* templated narrative (the 'no relevant articles' text for an empty set, the 'activity
\* observed' text otherwise) and the suggestion of the heuristic on the local counts.
AggregationFallback ==
  (pc = "report" /\ SynthesisFellBack) =>
    LET base == computeBaseMetrics(results, Len(articles))
    IN  [Val(aggregate) EXCEPT !.pricePrediction = None] =
          [base EXCEPT !.dominantDrivers = <<>>,
                       !.narrative = IF Len(results) = 0 THEN NARRATIVE_NONE
                                     ELSE NARRATIVE_UNAVAILABLE,
                       !.suggestion = inferFallbackSuggestion(base)]

\* An enabled oracle answered the synthesis with text that is not JSON, and the local
\* counts make the heuristic say SELL.
AggregationFallbackWitness ==
  /\ pc = "report"
  /\ cfg.aiEnabled
  /\ Len(results) >= 2
  /\ synth = Some(Unparsable)
  /\ Val(aggregate).suggestion = HeuristicSuggestion("SELL:")
  /\ Val(aggregate).narrative = NARRATIVE_UNAVAILABLE

\* A written number that is a number (not null) within lo..hi.
JsonNumberIn(x, lo, hi) == x # JsonNullValue /\ RLe(lo, x) /\ RLe(x, hi)

\* A written number that is a number.
IsJsonNumber(x) == x # JsonNullValue /\ IsFinite(x)

\* types.ts 52-67 and the forecast of RareEarthMetalPredictor.ts 57-70: every field of the
\* written snapshot holds a value of its declared type and range.
SchemaValid(a) ==
  /\ \A n \in {a.totalArticles, a.totalRelevant, a.magnetCount, a.batteryCount,
                a.mixedCount, a.otherCount} : n \in Nat
  /\ \A x \in {a.avgRelevanceConfidence, a.avgSentimentConfidence,
                a.avgPriceImpactConfidence} : JsonNumberIn(x, Num(0), Num(1))
  /\ \A n \in {a.priceImpactDistribution.up, a.priceImpactDistribution.down,
                a.priceImpactDistribution.uncertain, a.sentimentDistribution.bullish,
                a.sentimentDistribution.bearish, a.sentimentDistribution.neutral} : n \in Nat
  /\ a.narrative # <<>>
  /\ a.suggestion # <<>>
  /\ a.pricePrediction # None
  /\ LET f == Val(a.pricePrediction)
     IN  /\ \A x \in {f.predictedChangePercent, f.predictedChangeUSD, f.baselineVolatility,
                       f.newsImpactMultiplier, f.priceTarget, f.currentBasketPrice} :
              IsJsonNumber(x)
         /\ JsonNumberIn(f.confidence, Num(0), Num(1))

\* C14 Guaranteed completion: a full-mode run whose fetch succeeded ends at the persist
\* step, and the snapshot it writes is complete and schema-valid: every count, average,
\* distribution, narrative, suggestion and forecast field is a value of its declared
\* type and range, with the oracle enabled, disabled, failing or answering malformed
\* output, and with no relevant article.
GuaranteedCompletion == output # None => SchemaValid(Val(output))

\* The claim's BUY condition on the counts of a snapshot.
BuyCondition(a) ==
  /\ a.priceImpactDistribution.up > a.priceImpactDistribution.down
  /\ a.sentimentDistribution.bullish > a.sentimentDistribution.bearish
  /\ a.priceImpactDistribution.up >=
       a.priceImpactDistribution.down + a.priceImpactDistribution.uncertain

\* The claim's SELL condition on the counts of a snapshot.
SellCondition(a) ==
  /\ a.priceImpactDistribution.down > a.priceImpactDistribution.up
  /\ a.sentimentDistribution.bearish > a.sentimentDistribution.bullish
  /\ a.priceImpactDistribution.down >=
       a.priceImpactDistribution.up + a.priceImpactDistribution.uncertain

\* C15 Suggestion heuristic: the fallback suggestion is BUY exactly when up > down,
\* bullish > bearish and up >= down + uncertain, SELL exactly when down > up,
\* bearish > bullish and down >= up + uncertain, HOLD in every other case; the two
\* conditions never hold together, and the text always ends with the disclaimer.
SuggestionHeuristic ==
  metrics # None =>
    LET a == Val(metrics)
    IN  /\ (Head(a.suggestion) = ActionTok("BUY:")) <=> BuyCondition(a)
        /\ (Head(a.suggestion) = ActionTok("SELL:")) <=> SellCondition(a)
        /\ (Head(a.suggestion) = ActionTok("HOLD:")) <=>
             (~BuyCondition(a) /\ ~SellCondition(a))
        /\ ~(BuyCondition(a) /\ SellCondition(a))
        /\ EndsWithDisclaimer(a.suggestion)

\* Three articles, two up and one uncertain, two bullish and one bearish:
\* up = 2 >= 0 + 1, and the suggestion is BUY.
SuggestionHeuristicWitness ==
  /\ metrics # None
  /\ Val(metrics).priceImpactDistribution = [up |-> 2, down |-> 0, uncertain |-> 1]
  /\ Val(metrics).sentimentDistribution = [bullish |-> 2, bearish |-> 1, neutral |-> 0]
  /\ Head(Val(metrics).suggestion) = ActionTok("BUY:")

BaseMetricsCounts ==
  metrics # None =>
    LET a == Val(metrics)
        N(P(_)) == Cardinality({k \in 1..Len(enriched) : P(enriched[k])})
    IN  /\ a.totalRelevant = Len(enriched)
        /\ a.magnetCount  = N(LAMBDA e : e.relevance.category = "magnet")
        /\ a.batteryCount = N(LAMBDA e : e.relevance.category = "battery")
        /\ a.mixedCount   = N(LAMBDA e : e.relevance.category = "mixed")
        /\ a.otherCount   = N(LAMBDA e : e.relevance.category = "other")
        /\ a.priceImpactDistribution =
             [up        |-> N(LAMBDA e : e.priceImpact.direction = "up"),
              down      |-> N(LAMBDA e : e.priceImpact.direction = "down"),
              uncertain |-> N(LAMBDA e : e.priceImpact.direction = "uncertain")]
        /\ a.sentimentDistribution =
             [bullish |-> N(LAMBDA e : e.classification.sentiment = "bullish"),
              bearish |-> N(LAMBDA e : e.classification.sentiment = "bearish"),
              neutral |-> N(LAMBDA e : e.classification.sentiment = "neutral")]
        /\ Len(enriched) = 0 =>
             /\ a.avgRelevanceConfidence = DZero
             /\ a.avgSentimentConfidence = DZero
             /\ a.avgPriceImpactConfidence = DZero

\* The waits before attempts 2..attempt of one URL: 5 s, 10 s, 15 s.
LinearBackoff(attempt) == [k \in 1..(attempt - 1) |-> 5000 * k]

\* A URL is being asked again after a 429.
Retrying == pc = "request" /\ Val(request).attempt > 1

\* The attempts of the pending URL: never more than four, each after the linear waits;
\* a 429 on the last one is the rate-limit failure, and that failure has no other cause.
RetryBounded ==
  request # None =>
    LET r == Val(request)
    IN  /\ r.attempt \in 1..(RetryLimit + 1)
        /\ r.waits = LinearBackoff(r.attempt)
        /\ Len(r.waits) <= 3
        /\ (pc = "exit1" /\ r.response = Some(TooManyRequests)) =>
              (r.attempt = 4 /\ failure = Some(RateLimitError))
        /\ failure = Some(RateLimitError) =>
              (pc = "exit1" /\ r.attempt = 4 /\ r.response = Some(TooManyRequests))

\* A step that leaves the same URL pending is a retry after a 429; any other answer ends
\* the attempts of that URL.
RetryOnlyAfter429 ==
  (/\ pc = "request" /\ pc' = "request"
   /\ queryIndex' = queryIndex /\ Val(request').page = Val(request).page)
  => /\ Val(request').response = Some(TooManyRequests)
     /\ Val(request').attempt = Val(request).attempt + 1
     /\ Val(request').waits = Append(Val(request).waits, 5000 * Val(request).attempt)

\* C16 Rate-limit retry: a request answered with 429 is retried after a wait growing
\* linearly with the attempt number (5 s, 10 s, 15 s); at most 4 requests are sent for
\* one URL; a success ends the retries; a 429 on the last allowed attempt ends with the
\* rate-limit failure; the attempts of every URL come to an end.
RateLimitRetry ==
  /\ []RetryBounded
  /\ [][RetryOnlyAfter429]_vars
  /\ Retrying ~> ~Retrying

\* The fourth request of a URL was answered with 429 after waits of 5, 10 and 15 s.
RateLimitRetryWitness ==
  /\ pc = "exit1"
  /\ failure = Some(RateLimitError)
  /\ Val(request).attempt = RetryLimit + 1
  /\ Val(request).waits = <<5000, 10000, 15000>>
  /\ Val(request).page = 2

\* The pages asked for query q, in the order they were asked.
PagesOf(q) ==
  LET asked == SelectSeq(requested, LAMBDA rq : rq[1] = q)
  IN  [k \in 1..Len(asked) |-> asked[k][2]]

\* The articles the upstream returned for query q, in order of arrival.
SeenOf(q) == SelectSeq(seen, LAMBDA a : a.payload[1] = q)

\* The number of articles page p of query q returned.
PageLength(q, p) == Len(SelectSeq(SeenOf(q), LAMBDA a : a.payload[2] = p))

RECURSIVE ReturnedUpTo(_)
\* What fetchAllPages returned for the queries before q, one list after the other.
ReturnedUpTo(q) == IF q = 0 THEN <<>> ELSE ReturnedUpTo(q - 1) \o DedupById(SeenOf(q - 1))

\* C17 Pagination: for one query the pages 1, 2, ... are requested in order; a page is
\* requested only after a full page and never beyond pageLimit; the query ends with its
\* first short (or empty) page or with page pageLimit; what fetchAllPages returns is the
\* articles of all the requested pages.
Pagination ==
  /\ \A q \in 0..(NumQueries - 1) :
        /\ PagesOf(q) = [k \in 1..Len(PagesOf(q)) |-> k]
        /\ Len(PagesOf(q)) <= PageLimit
        /\ \A p \in 1..(Len(PagesOf(q)) - 1) : PageLength(q, p) = PageSize
        /\ (q < queryIndex) =>
              /\ Len(PagesOf(q)) >= 1
              /\ \/ PageLength(q, Len(PagesOf(q))) < PageSize
                 \/ Len(PagesOf(q)) = PageLimit
  /\ pc = "fetch" => allArticles = ReturnedUpTo(queryIndex)

\* One query went through both pages, another stopped after a short first page.
PaginationWitness ==
  /\ pc = "enrich_loop"
  /\ \E q \in 0..(NumQueries - 1) : PagesOf(q) = <<1, 2>> /\ PageLength(q, 2) = PageSize
  /\ \E q \in 0..(NumQueries - 1) : PagesOf(q) = <<1>> /\ PageLength(q, 1) = 1

\* The pending request was last answered with a response that is neither a success
\* nor a 429.
AnsweredWithError ==
  request # None /\ \E resp \in ErrorResponses : Val(request).response = Some(resp)

\* C18 Upstream error: a response that is neither a success nor a 429 makes the fetch
\* fail at once with an error carrying the status and the body of the response; the
\* request is not sent again, and no article of that page is returned.
UpstreamErrorFails ==
  /\ AnsweredWithError =>
        LET r == Val(request)
        IN  /\ pc = "exit1"
            /\ failure = Some(UpstreamError(Val(r.response).status, Val(r.response).body))
            /\ PageLength(queryIndex, r.page) = 0
            /\ allArticles = ReturnedUpTo(queryIndex)
            /\ articles = <<>>
  /\ (failure # None /\ Val(failure).kind = "upstream") =>
        (AnsweredWithError /\ Val(failure).status \notin {200, 429})

\* Page 2 of a query was answered with 500 on its second attempt, after a 429.
UpstreamErrorFailsWitness ==
  /\ pc = "exit1"
  /\ failure = Some(UpstreamError(500, "unexpectedError"))
  /\ Val(request).page = 2
  /\ Val(request).attempt = 2
  /\ Val(request).waits = <<5000>>

\* The aggregate-summary files found at startup.
SummaryFiles == SelectSeq(disk, LAMBDA f : f.file.summary)

\* File j of a list is one of the most recently modified.
Newest(files, j) == \A h \in 1..Len(files) : files[h].mtime <= files[j].mtime

\* C20 Prediction-only replay: with skipFetch set, the run reads the most recently
\* modified aggregate-summary file and derives the forecast from it with predict; it
\* sends no fetch request, makes no oracle call and writes nothing to the output
\* directory.
PredictionOnlyReplay ==
  cfg.skipFetch =>
    /\ pc \in {"start", "exit0"}
    /\ requested = <<>> /\ request = None /\ seen = <<>> /\ articles = <<>>
    /\ tasks = <<>> /\ results = <<>> /\ synth = None
    /\ output = None
    /\ pc = "exit0" =>
         \/ /\ pricePrediction = None
            /\ \/ SummaryFiles = <<>>
               \/ \E j \in 1..Len(SummaryFiles) :
                     Newest(SummaryFiles, j) /\ ~SummaryFiles[j].file.ok
         \/ \E j \in 1..Len(SummaryFiles) :
              /\ Newest(SummaryFiles, j)
              /\ SummaryFiles[j].file.ok
              /\ pricePrediction = Some(predict(SummaryFiles[j].file.json).forecast)

\* Two readable summary files with different forecasts; the one listed second is the
\* newer, and the forecast is its.
PredictionOnlyReplayWitness ==
  /\ cfg.skipFetch
  /\ pc = "exit0"
  /\ Len(disk) = 2
  /\ disk[1].file.summary /\ disk[1].file.ok
  /\ disk[2].file.summary /\ disk[2].file.ok
  /\ disk[1].mtime < disk[2].mtime
  /\ predict(disk[1].file.json).forecast # predict(disk[2].file.json).forecast
  /\ pricePrediction = Some(predict(disk[2].file.json).forecast)

\* The prediction-only run has nothing to read: no output directory, no summary file,
\* or no readable file among those modified last.
NothingToReplay ==
  \/ outDir # "directory"
  \/ SummaryFiles = <<>>
  \/ \A j \in 1..Len(SummaryFiles) : Newest(SummaryFiles, j) => ~SummaryFiles[j].file.ok

\* C21 No prior snapshot: a prediction-only run that finds no output directory, no
\* aggregate-summary file, or an unreadable latest file reports the error, computes no
\* forecast, makes no fetch or oracle call, and ends with a normal exit.
NoPriorSnapshot ==
  /\ cfg.skipFetch => pc # "exit1" /\ failure = None
  /\ (cfg.skipFetch /\ NothingToReplay /\ pc # "start") =>
        /\ pc = "exit0"
        /\ reported # <<>> /\ reported[Len(reported)] = NO_SUMMARY
        /\ pricePrediction = None /\ aggregate = None
        /\ requested = <<>> /\ request = None /\ articles = <<>>
        /\ tasks = <<>> /\ results = <<>> /\ synth = None
        /\ output = None

\* The run found an older readable summary and a newer one that is not JSON: both the
\* loader and main reported, and the older file was not used.
NoPriorSnapshotWitness ==
  /\ cfg.skipFetch
  /\ pc = "exit0"
  /\ Len(disk) = 2
  /\ disk[1].file.summary /\ disk[1].file.ok /\ disk[1].mtime = 1
  /\ disk[2].file.summary /\ ~disk[2].file.ok /\ disk[2].mtime = 2
  /\ reported = <<LOAD_FAILED, NO_SUMMARY>>
  /\ pricePrediction = None

\* A snapshot file exists only at the end of a full-mode run: every group enriched, the
\* synthesis settled, the forecast attached, and the file is the snapshot in hand.
WrittenOnlyAtEnd ==
  output # None =>
    /\ pc = "exit0"
    /\ ~cfg.skipFetch
    /\ i >= Len(articles) /\ tasks = <<>>
    /\ aggregate # None
    /\ Val(aggregate).pricePrediction = pricePrediction /\ pricePrediction # None
    /\ Val(output) = ToJson(Val(aggregate))

\* The file is written by the last step only, and once.
WrittenOnce == (output' # output) => (output = None /\ pc = "report" /\ pc' = "exit0")

\* C22 Persist at the end: in a full-mode run the snapshot file is written at most once,
\* and only after the enrichment of every group, the aggregation and the attachment of
\* the forecast; in every earlier state of the run nothing has been written.
PersistAtEnd == []WrittenOnlyAtEnd /\ [][WrittenOnce]_vars

\* A run over three articles in two groups has written its snapshot.
PersistAtEndWitness ==
  /\ pc = "exit0"
  /\ output # None
  /\ Len(articles) = 3
  /\ Len(results) >= 2
  /\ i = 4

\* Task k has an oracle call that has not settled.
Outstanding(k) == tasks[k].st \in {"rel_wait", "calls_wait"}

\* The tasks in hand are those of one group of at most BatchSize consecutive articles,
\* and outside the wait for a group no call is outstanding.
OneGroupInFlight ==
  /\ Len(tasks) <= BatchSize
  /\ i % BatchSize = 0
  /\ \A k \in 1..Len(tasks) :
        Outstanding(k) => (pc = "await_batch" /\ tasks[k].article = articles[i + k])

\* A new group starts only when no call of the group before is outstanding, and the
\* results list grows only by a whole resolved group.
GroupSequential ==
  /\ (tasks' # tasks /\ pc = "enrich_loop") => \A k \in 1..Len(tasks) : ~Outstanding(k)
  /\ (results' # results) =>
        /\ \A k \in 1..Len(tasks) : tasks[k].st = "done"
        /\ results' = results \o BatchResults(tasks)
        /\ i' = i + BatchSize

\* C23 Bounded group concurrency: the articles with an outstanding oracle call all
\* belong to one group of at most BatchSize consecutive articles; no call of the next
\* group starts before every article of the group has resolved; the results list is
\* extended only by a whole resolved group.
BoundedGroupConcurrency == []OneGroupInFlight /\ [][GroupSequential]_vars

\* Both articles of the first group have calls outstanding at once, one waiting for its
\* relevance judgment and one for its two analyses.
BoundedGroupConcurrencyWitness ==
  /\ pc = "await_batch"
  /\ Len(articles) = 3
  /\ i = 0
  /\ Len(tasks) = 2
  /\ tasks[1].st = "rel_wait"
  /\ tasks[2].st = "calls_wait"

\* C24 No oracle retries: in one run the relevance, the sentiment and the price-impact
\* operation are each invoked at most once per article and the synthesis at most once;
\* a failed call is never issued again.
NoOracleRetries ==
  /\ \A j \in 1..MaxArticles :
        invoked.rel[j] <= 1 /\ invoked.cls[j] <= 1 /\ invoked.pi[j] <= 1
  /\ invoked.synth <= 1

\* The relevance call of the first article of a group and the sentiment call of the
\* second have failed: each was invoked once, and nothing is invoked for the first again.
NoOracleRetriesWitness ==
  /\ pc = "await_batch"
  /\ Len(tasks) = 2
  /\ tasks[1].threw /\ tasks[1].st = "done"
  /\ tasks[2].clsFailed /\ tasks[2].st = "calls_wait"
  /\ invoked.rel[i + 1] = 1 /\ invoked.rel[i + 2] = 1
  /\ invoked.cls[i + 1] = 0 /\ invoked.cls[i + 2] = 1
  /\ invoked.pi[i + 1] = 0 /\ invoked.pi[i + 2] = 1

\* The relevance judgment the pipeline holds for article j, if its relevance call has
\* returned one: in the task of the running group, or in the entry pushed to results.
RelevanceOf(j) ==
  IF pc = "await_batch" /\ j > i /\ j <= i + Len(tasks)
  THEN IF tasks[j - i].st \in {"calls_wait", "done"} /\ ~tasks[j - i].threw
       THEN Some(tasks[j - i].relevance) ELSE None
  ELSE LET own == SelectSeq(results, LAMBDA e : e.article.id = j)
       IN  IF own # <<>> THEN Some(own[1].relevance) ELSE None

\* In every state the sentiment and price-impact calls of an article have been issued
\* equally often, and only for an article whose relevance judgment passed the filter.
CallsAfterRelevance ==
  \A j \in 1..MaxArticles :
    /\ invoked.cls[j] = invoked.pi[j]
    /\ invoked.cls[j] > 0 =>
         /\ invoked.rel[j] > 0
         /\ RelevanceOf(j) # None
         /\ Val(RelevanceOf(j)).relevant /\ Val(RelevanceOf(j)).automotiveRelevant

\* The two calls are issued in one step, the step in which the relevance call of that
\* article returns and the task passes the filter.
CallsIssuedTogether ==
  \A j \in 1..MaxArticles :
    (invoked'.cls[j] # invoked.cls[j] \/ invoked'.pi[j] # invoked.pi[j]) =>
      /\ invoked'.cls[j] = invoked.cls[j] + 1
      /\ invoked'.pi[j] = invoked.pi[j] + 1
      /\ pc = "await_batch" /\ j > i /\ j <= i + Len(tasks)
      /\ tasks[j - i].st = "rel_wait" /\ tasks'[j - i].st = "calls_wait"
      /\ PassesFilter(tasks'[j - i].relevance)

\* C25: the sentiment and price-impact calls of an article are issued only after its
\* relevance call returned relevant and automotiveRelevant both true, the two together
\* without one waiting for the other, and never for an article that was dropped.
CallOrdering == []CallsAfterRelevance /\ [][CallsIssuedTogether]_vars

\* A group in which one article passed the filter and has both calls in flight, and the
\* other was judged relevant but not automotive and was dropped with neither call issued.
CallOrderingWitness ==
  /\ pc = "await_batch"
  /\ Len(tasks) = 2
  /\ \E k, d \in 1..2 :
       /\ tasks[k].st = "calls_wait"
       /\ tasks[k].classification = None /\ tasks[k].priceImpact = None
       /\ invoked.cls[i + k] = 1 /\ invoked.pi[i + k] = 1
       /\ tasks[d].st = "done" /\ ~tasks[d].threw
       /\ tasks[d].relevance.relevant /\ ~tasks[d].relevance.automotiveRelevant
       /\ invoked.rel[i + d] = 1
       /\ invoked.cls[i + d] = 0 /\ invoked.pi[i + d] = 0

\* What the judgments held by the tasks of a group determine, article by article in the
\* order of the group: an entry for each task that passed the filter, with its own
\* article and its own three judgments.
OwnEntries(settled) ==
  LET passed == SelectSeq(settled, LAMBDA t : ~t.threw /\ PassesFilter(t.relevance))
  IN  [k \in 1..Len(passed) |->
         [article |-> passed[k].article, relevance |-> passed[k].relevance,
          classification |-> Val(passed[k].classification),
          priceImpact |-> Val(passed[k].priceImpact)]]

\* The results hold articles of the de-duplicated list that passed the filter, each at
\* most once and in the order of that list.
ResultsInArticleOrder ==
  /\ \A k \in 1..Len(results) :
       /\ results[k].article.id \in 1..Len(articles)
       /\ results[k].article = articles[results[k].article.id]
       /\ PassesFilter(results[k].relevance)
  /\ \A k, m \in 1..Len(results) : k < m => results[k].article.id < results[m].article.id

\* Whatever the order in which the calls of a group returned, the group added to the
\* results exactly the entries its own judgments determine.
GroupAddedOwnEntries ==
  GroupPushed =>
    LET own == OwnEntries(tasks)
    IN  /\ \A k \in 1..Len(tasks) : tasks[k].article = articles[i - BatchSize + k]
        /\ Len(results) >= Len(own)
        /\ SubSeq(results, Len(results) - Len(own) + 1, Len(results)) = own
        /\ \A k \in 1..(Len(results) - Len(own)) :
             results[k].article.id <= i - BatchSize

\* A judgment a task has received stays as it was received while the group runs, and
\* the results change only by a group's entries being appended.
JudgmentsKept ==
  /\ (pc = "await_batch" /\ pc' = "await_batch") =>
       \A k \in 1..Len(tasks) :
         /\ tasks'[k].article = tasks[k].article
         /\ tasks[k].st # "rel_wait" => tasks'[k].relevance = tasks[k].relevance
         /\ tasks[k].classification # None =>
              tasks'[k].classification = tasks[k].classification
         /\ tasks[k].priceImpact # None => tasks'[k].priceImpact = tasks[k].priceImpact
  /\ Len(results') >= Len(results)
  /\ SubSeq(results', 1, Len(results)) = results

\* C26: with the answers of the oracle for each article given, every order in which the
\* calls of a group complete yields the same results: exactly the articles that passed
\* the filter, each once with its own three judgments, in the order of the
\* de-duplicated article list.
InterleavingIndependence ==
  /\ [](ResultsInArticleOrder /\ GroupAddedOwnEntries)
  /\ [][JudgmentsKept]_vars

\* A pushed group both of whose articles passed the filter, where the second article's
\* task settled before the first's: the results still hold the first article first.
InterleavingIndependenceWitness ==
  /\ GroupPushed
  /\ Len(tasks) = 2
  /\ Enriched(1) /\ Enriched(2)
  /\ tasks[2].rank = 1 /\ tasks[1].rank = 2
  /\ Len(results) = 2
  /\ results[1].article.id = 1 /\ results[2].article.id = 2
  /\ results[1].classification # results[2].classification

\* The synthesis reply parsed to an object and the snapshot built from it is in hand.
SynthesisParsed ==
  /\ pc \in {"report", "exit0"}
  /\ aggregate # None
  /\ synth # None
  /\ Val(synth).k = "json"

\* A bucket as the oracle gave it: a missing or non-numeric bucket counts as 0.
OracleBucket(raw) == IF raw = Missing \/ raw = RawText THEN 0 ELSE raw.v

\* C27: when the synthesis reply parses to an object, both distributions of the snapshot
\* are the oracle's values, a missing or non-numeric bucket read as 0, while
\* totalArticles, totalRelevant, the four category counts and the three averages are the
\* locally computed values.
OracleOverrideFrame ==
  SynthesisParsed =>
    LET a     == Val(aggregate)
        reply == Val(synth)
        local == computeBaseMetrics(results, Len(articles))
        InCategory(c) == Cardinality({k \in 1..Len(results) : results[k].relevance.category = c})
    IN  /\ a.priceImpactDistribution =
             [up        |-> OracleBucket(reply.pid.up),
              down      |-> OracleBucket(reply.pid.down),
              uncertain |-> OracleBucket(reply.pid.uncertain)]
        /\ a.sentimentDistribution =
             [bullish |-> OracleBucket(reply.sd.bullish),
              bearish |-> OracleBucket(reply.sd.bearish),
              neutral |-> OracleBucket(reply.sd.neutral)]
        /\ a.totalArticles = Len(articles)
        /\ a.totalRelevant = Len(results)
        /\ a.magnetCount = InCategory("magnet")
        /\ a.batteryCount = InCategory("battery")
        /\ a.mixedCount = InCategory("mixed")
        /\ a.otherCount = InCategory("other")
        /\ a.avgRelevanceConfidence = local.avgRelevanceConfidence
        /\ a.avgSentimentConfidence = local.avgSentimentConfidence
        /\ a.avgPriceImpactConfidence = local.avgPriceImpactConfidence

\* Two relevant articles, and a reply whose sentiment buckets are partly missing and
\* partly text and whose price-impact buckets disagree with the local counts.
OracleOverrideFrameWitness ==
  /\ SynthesisParsed
  /\ pc = "report"
  /\ Len(articles) = 3 /\ Len(results) = 2
  /\ Val(synth).sd.bullish = Missing /\ Val(synth).sd.neutral = RawText
  /\ Val(aggregate).sentimentDistribution = [bullish |-> 0, bearish |-> 1, neutral |-> 0]
  /\ Val(aggregate).priceImpactDistribution = [up |-> 0, down |-> 1, uncertain |-> 9]
  /\ Val(aggregate).priceImpactDistribution
       # computeBaseMetrics(results, Len(articles)).priceImpactDistribution
  /\ Val(aggregate).totalRelevant = 2
  /\ Val(aggregate).magnetCount = 2

\* Two snapshots agree in every field but the attached forecast.
SameButForecast(a, b) == [a EXCEPT !.pricePrediction = None] = [b EXCEPT !.pricePrediction = None]

\* Two snapshots agree in every field but the forecast and the narrative.
SameButNarrative(a, b) ==
  [a EXCEPT !.pricePrediction = None, !.narrative = <<>>]
    = [b EXCEPT !.pricePrediction = None, !.narrative = <<>>]

\* C28: from the moment aggregation has returned the snapshot to the moment it is
\* persisted, no step changes any field of the snapshot other than the attached
\* forecast: totals, counts, averages, distributions, drivers, narrative and suggestion
\* stay as aggregation returned them.
SnapshotImmutability ==
  [][(aggregate # None /\ aggregate' # None)
       => SameButForecast(Val(aggregate), Val(aggregate'))]_vars

\* What does hold of those steps: every field but the forecast and the narrative is
\* kept, and the narrative changes only to its cleaned form.
SnapshotKeptButNarrative ==
  [][(aggregate # None /\ aggregate' # None)
       => /\ SameButNarrative(Val(aggregate), Val(aggregate'))
          /\ Val(aggregate').narrative = cleanNarrative(Val(aggregate).narrative)
          /\ Val(aggregate').pricePrediction = Val(aggregate).pricePrediction]_vars

\* The confidences of the judgments in hand and the averages computed from them.
JudgedConfidences ==
  {enriched[k].relevance.confidence : k \in 1..Len(enriched)}
    \cup {enriched[k].classification.confidence : k \in 1..Len(enriched)}
    \cup {enriched[k].priceImpact.confidence : k \in 1..Len(enriched)}
    \cup (IF metrics = None THEN {}
          ELSE {Val(metrics).avgRelevanceConfidence, Val(metrics).avgSentimentConfidence,
                Val(metrics).avgPriceImpactConfidence})

\* C29: every relevance, sentiment and price-impact judgment the adapter returns has a
\* confidence that is a number in [0,1], whether the oracle's confidence field was
\* missing, out of range or not a number, and so the three confidence averages of a
\* snapshot lie in [0,1].
JudgmentConfidenceRange == \A c \in JudgedConfidences : InUnitInterval(c)

\* What does hold: a confidence or an average is in [0,1] or is NaN.
ConfidenceInRangeOrNaN == \A c \in JudgedConfidences : IsNaN(c) \/ InUnitInterval(c)

\* A full-mode run without an oracle credential.
OracleDisabledRun == ~cfg.aiEnabled /\ ~cfg.skipFetch

\* C30: in a full-mode run with no oracle credential no oracle operation is invoked,
\* every fetched article is dropped as not relevant, and the snapshot has totalArticles
\* equal to the number of unique fetched articles, totalRelevant 0, every count and
\* average 0, the narrative of no relevant articles and a HOLD suggestion.
OracleDisabledPolicy ==
  OracleDisabledRun =>
    /\ invoked = NoCalls
    /\ synth = None
    /\ results = <<>>
    /\ \A k \in 1..Len(tasks) :
         /\ tasks[k].st = "done" /\ tasks[k].value = None
         /\ ~tasks[k].relevance.relevant
    /\ aggregate # None =>
         LET a == Val(aggregate)
         IN  /\ a.totalArticles = Len(articles)
             /\ a.totalRelevant = 0
             /\ a.magnetCount = 0 /\ a.batteryCount = 0
             /\ a.mixedCount = 0 /\ a.otherCount = 0
             /\ a.avgRelevanceConfidence = Num(0)
             /\ a.avgSentimentConfidence = Num(0)
             /\ a.avgPriceImpactConfidence = Num(0)
             /\ a.priceImpactDistribution = [up |-> 0, down |-> 0, uncertain |-> 0]
             /\ a.sentimentDistribution = [bullish |-> 0, bearish |-> 0, neutral |-> 0]
             /\ a.dominantDrivers = <<>>
             /\ a.narrative = NARRATIVE_NONE
             /\ Head(a.suggestion) = ActionTok("HOLD:")
    /\ output # None => Val(output).totalArticles = Len(articles)

\* Three unique articles fetched without a credential: all were dropped without a
\* call, and the written snapshot counts three articles and none relevant.
OracleDisabledPolicyWitness ==
  /\ OracleDisabledRun
  /\ pc = "exit0"
  /\ Len(articles) = 3
  /\ i >= 3
  /\ invoked = NoCalls
  /\ results = <<>>
  /\ output # None
  /\ Val(output).totalArticles = 3 /\ Val(output).totalRelevant = 0
  /\ Val(output).narrative = NARRATIVE_NONE

=============================================================================
